---- MODULE Spec2Model ----
(***************************************************************************)
(* QuickPose (Source/QuickPose.cxx): the cross-view association search,    *)
(* its triangulation and bone-length pruning, and the cluster resolver.    *)
(*                                                                         *)
(* Numbers.  Scores (part affinity, epipolar, cluster score) are integers  *)
(* in units of 1/30000, so 1.0f is ScoreOne and the threshold 0.0001f is   *)
(* EPS = 3.  Lengths are integers in units of a third of the epipolar      *)
(* distance limit, so the epipolar scores of the model are 1, 2/3, 1/3, 0. *)
(*                                                                         *)
(* Geometry.  The frames of the model are those whose ray origins lie on   *)
(* one line (the x axis) and whose ray directions are perpendicular to it  *)
(* and pairwise non-parallel across cameras.  On these frames              *)
(* MathUtils::multiRayIntersect returns (mean of the origins' x, 0, 0):    *)
(* A = sum(d d^T - I) has first row (-n, 0, 0) and b = (-sum x, 0, 0); and *)
(* MathUtils::computeRayDistance returns |x1 - x2| in both of its          *)
(* branches.  A point of the line is kept as the exact fraction num/den.   *)
(***************************************************************************)
EXTENDS Integers, Sequences, FiniteSets, TLC

(* ------------------------------ bounds -------------------------------- *)

\* number of candidates of the whole frame
MaxJoints == 4

(* ------------------------- program constants -------------------------- *)

EPS == 3
NO_CHOICE == -1
ScoreOne == 30000
MAX_EPIPOLAR_DISTANCE == 3
FLT_MAX == 1000000

rootJointType == 8

parents ==
  <<1, 8, 1, 2, 3, 1, 5, 6, -1, 8, 9, 10, 8, 12, 13, 0, 0, 2, 5, 14, 19, 14, 11, 22, 11>>

viewOrders ==
  << <<0, 1, 2, 3, 4>>,
     <<1, 2, 3, 4, 0>>,
     <<2, 3, 4, 0, 1>>,
     <<3, 4, 0, 1, 2>>,
     <<4, 0, 1, 2, 3>> >>

jointOrders ==
  << <<8, 1, 2, 3, 4>>,
     <<8, 1, 5, 6, 7>>,
     <<8, 1, 0>>,
     <<8, 9, 10, 11>>,
     <<8, 12, 13, 14>>,
     <<8, 1, 2, 17>>,
     <<8, 1, 5, 18>> >>

boneA ==
  <<1, 9, 10, 8, 8, 12, 13, 1, 2, 3, 2, 1, 5, 6, 5, 1, 0, 0, 15, 16, 14, 19, 14, 11, 22, 11>>

boneB ==
  <<8, 10, 11, 9, 12, 13, 14, 2, 3, 4, 17, 5, 6, 7, 18, 0, 15, 16, 17, 18, 19, 20, 21, 22, 23, 24>>

\* the frame has as many cameras as a camera permutation has entries, and
\* as many joint types as the parent table
viewNum == Len(viewOrders[1])
typeNum == Len(parents)

Views == 0 .. viewNum - 1
Types == 0 .. typeNum - 1

\* parents[] is indexed from 0 in the source
Parent(type) == parents[type + 1]

Abs(x) == IF x < 0 THEN -x ELSE x

RECURSIVE SumSeq(_)
SumSeq(s) == IF s = <<>> THEN 0 ELSE Head(s) + SumSeq(Tail(s))

VARIABLES
  joints,            \* multiview.views[v].joints[t]: sequence of Joint
  PAFs,              \* multiview.views[v].PAFs: key -> value
  epipolars,         \* multiview.epipolars: key -> value
  maxBoneLengths,    \* QuickPose::maxBoneLengths: key -> length
  setCalls,          \* history: the argument pairs of the set calls made so far
  testRays,          \* the rays handed to MathUtils::multiRayIntersect
  testConfs,         \* the weights handed to it
  intersection,      \* the point it returned
  distance,          \* what MathUtils::computeRayDistance returned for testRays
  viewsSize,         \* multiview.views.size(), the number of cameras of the frame
  viewOrderI,        \* position of the driving loops of compute(multiview)
  jointOrderI,
  viewOrder,         \* QuickPose::viewOrder
  jointOrder,        \* QuickPose::jointOrder
  cluster,           \* the working QCluster of compute(multiview)
  historyScores,     \* QuickPose::historyScores
  preservedClusters, \* QuickPose::preservedClusters[0 .. clusterNum-1]
  count,             \* QuickPose::count
  stack,             \* activation records of compute(viewI, jointI)
  phase,             \* "search", "resolve", "done"
  VJCPersons,        \* postProcessing: (view, joint, choice) => person
  VJPChoices,        \* postProcessing: (view, joint, person) => choice
  multiPersonPose,   \* postProcessing: the Poses built so far
  clusterI,          \* postProcessing: the loop index of line 333
  accepted           \* postProcessing: the clusters that reached line 388

\* what compute(multiview) and postProcessing do not write
inputs == <<joints, PAFs, epipolars, maxBoneLengths, setCalls, testRays, testConfs, intersection,
            distance, viewsSize>>

vars == <<joints, PAFs, epipolars, maxBoneLengths, setCalls, testRays, testConfs, intersection,
          distance, viewsSize,
          viewOrderI, jointOrderI,
          viewOrder, jointOrder, cluster, historyScores, preservedClusters, count,
          stack, phase, VJCPersons, VJPChoices, multiPersonPose, clusterI,
          accepted>>

resolver == <<VJCPersons, VJPChoices, multiPersonPose, clusterI, accepted>>

mathUtils == <<testRays, testConfs, intersection, distance>>

\* no call of multiRayIntersect has returned
NoPoint == [overload |-> "none"]

\* no call of computeRayDistance has returned
NoDistance == [branch |-> "none"]

(* ------------------------------ the frame ----------------------------- *)

\* a key of the packed maps: Key(a, b) stands for a + b * I (I = 2^32 for
\* joint IDs, 2^16 for joint types); a and b are below I, so the packed
\* number and the pair determine each other
Key(a, b) == <<a, b>>

\* the cameras and the joint types of the frame that hold candidates, and
\* the origins of their rays
CandViews == {0, 1, 2}
CandTypes == {jointOrders[3][k] : k \in 1 .. Len(jointOrders[3])}
Origins == {0, 1, 3}

\* the slots (camera, joint type) in the order the loader fills them
RECURSIVE SetToSeq(_)
SetToSeq(S) ==
  IF S = {} THEN <<>>
  ELSE LET m == CHOOSE x \in S : \A y \in S : x <= y
       IN <<m>> \o SetToSeq(S \ {m})

SlotSeq ==
  LET vs == SetToSeq(CandViews)
      ts == SetToSeq(CandTypes)
  IN [i \in 1 .. Len(vs) * Len(ts) |->
        <<vs[((i - 1) \div Len(ts)) + 1], ts[((i - 1) % Len(ts)) + 1]>>]

\* the candidates of one slot: distinct origins, in increasing order
OriginSeqs == {SetToSeq(S) : S \in SUBSET Origins}

\* every way to give each of the slots `used` a candidate list, at most
\* `budget` candidates in all, the other slots staying empty
RECURSIVE Layouts(_, _, _)
Layouts(n, budget, used) ==
  IF n = 0 THEN {<<>>}
  ELSE UNION {{Append(rest, o) :
                 o \in IF n \in used
                       THEN {q \in OriginSeqs :
                               Len(q) <= budget - SumSeq([i \in 1 .. Len(rest) |-> Len(rest[i])])}
                       ELSE {<<>>}}
              : rest \in Layouts(n - 1, budget, used)}

SlotIndex(view, type) ==
  IF <<view, type>> \in {SlotSeq[i] : i \in 1 .. Len(SlotSeq)}
  THEN CHOOSE i \in 1 .. Len(SlotSeq) : SlotSeq[i] = <<view, type>>
  ELSE 0

\* T4DALoader: jointChoices[j].ID = jointID++, camera by camera, joint type
\* by joint type
LoadJoints(layout) ==
  [slot \in {SlotSeq[i] : i \in {k \in 1 .. Len(layout) : layout[k] # <<>>}} |->
     LET k == SlotIndex(slot[1], slot[2])
     IN [j \in 1 .. Len(layout[k]) |->
           [ID  |-> SumSeq([i \in 1 .. k - 1 |-> Len(layout[i])]) + j - 1,
            ray |-> [origin |-> layout[k][j]]]]]

\* views[view].joints[type] of a frame: the model stores the non-empty
\* candidate lists only
JointsOf(js, view, type) ==
  IF <<view, type>> \in DOMAIN js THEN js[<<view, type>>] ELSE <<>>

\* T4DALoader: view.setPAF(jointA, jointB, ...) for every bone (boneA, boneB)
PAFKeys(js, view) ==
  UNION {{Key(JointsOf(js, view, boneA[b])[i].ID, JointsOf(js, view, boneB[b])[j].ID) :
            i \in 1 .. Len(JointsOf(js, view, boneA[b])),
            j \in 1 .. Len(JointsOf(js, view, boneB[b]))}
         : b \in 1 .. Len(boneA)}

PAFValues == {0, EPS}

\* MathUtils::computeRayDistance on the frames of the model
computeRayDistance(ray1, ray2) == Abs(ray1.origin - ray2.origin)

\* computeEpipolar with the inner camera loop stopping after viewIA + 1
computeEpipolarAdjacent(js, maxDistance) ==
  LET pairs == {<<va, vb, type, i, j>> \in CandViews \X CandViews \X CandTypes \X (1 .. Cardinality(Origins)) \X (1 .. Cardinality(Origins)) :
                  /\ va + 1 = vb
                  /\ i <= Len(JointsOf(js, va, type))
                  /\ j <= Len(JointsOf(js, vb, type))}
      KeyOf(p) == Key(JointsOf(js, p[1], p[3])[p[4]].ID, JointsOf(js, p[2], p[3])[p[5]].ID)
      ValOf(p) == ScoreOne - (computeRayDistance(JointsOf(js, p[1], p[3])[p[4]].ray,
                                                 JointsOf(js, p[2], p[3])[p[5]].ray) * ScoreOne) \div maxDistance
  IN [k \in {KeyOf(p) : p \in pairs} |->
        LET p == CHOOSE q \in pairs : KeyOf(q) = k IN ValOf(p)]

\* MultiView::computeEpipolar
computeEpipolar(js, maxDistance) ==
  LET pairs == {<<va, vb, type, i, j>> \in CandViews \X CandViews \X CandTypes \X (1 .. Cardinality(Origins)) \X (1 .. Cardinality(Origins)) :
                  /\ va < vb
                  /\ i <= Len(JointsOf(js, va, type))
                  /\ j <= Len(JointsOf(js, vb, type))}
      KeyOf(p) == Key(JointsOf(js, p[1], p[3])[p[4]].ID, JointsOf(js, p[2], p[3])[p[5]].ID)
      ValOf(p) == ScoreOne - (computeRayDistance(JointsOf(js, p[1], p[3])[p[4]].ray,
                                                 JointsOf(js, p[2], p[3])[p[5]].ray) * ScoreOne) \div maxDistance
  IN [k \in {KeyOf(p) : p \in pairs} |->
        LET p == CHOOSE q \in pairs : KeyOf(q) = k IN ValOf(p)]

\* the joint-type pairs whose limit the calibration sets
bonePairs ==
  << <<0, 1>>, <<1, 2>>, <<2, 3>>, <<3, 4>>, <<1, 5>>, <<5, 6>>, <<6, 7>>, <<1, 8>>,
     <<8, 9>>, <<9, 10>>, <<10, 11>>, <<8, 12>>, <<12, 13>>, <<13, 14>>,
     <<2, 17>>, <<5, 18>> >>

\* QuickPose::setMaxBoneLength stores under jointTypeA + jointTypeB * I16
BoneKeys == {Key(bonePairs[b][1], bonePairs[b][2]) : b \in 1 .. Len(bonePairs)}
BoneLengths == {1}

noFrames == [n \in {} |-> 0]

\* QCluster(viewNum, typeNum): every choice NO_CHOICE, every worldPos the
\* zero vector.  The model stores the choices that are not NO_CHOICE and
\* the positions that were written.
NewCluster ==
  [mainView |-> 0, score |-> 0, choices |-> noFrames, worldPos |-> noFrames]

\* the frames of the model have a ray at the origin of the line
Anchored(layout) ==
  \A i \in 1 .. Len(layout) : layout[i] # <<>> =>
    \E k \in 1 .. Len(layout) : layout[k] # <<>> /\ layout[k][1] = 0

\* the frames of at most MaxJoints candidates are of two kinds: cameras 0
\* and 1 see the root joint type and its child, or cameras 0, 1 and 2 see
\* the root joint type
FrameKinds ==
  {{i \in 1 .. Len(SlotSeq) : /\ SlotSeq[i][1] # 2
                              /\ SlotSeq[i][2] \in {jointOrders[3][1], jointOrders[3][2]}},
   {i \in 1 .. Len(SlotSeq) : SlotSeq[i][2] = rootJointType}}

\* the frame of one person, seen by cameras 0 and 1 in the three joint
\* types of the joint order: one candidate per camera and joint type, the
\* ray of camera 0 through 0 and the ray of camera 1 through 1
OnePerson ==
  [i \in 1 .. Len(SlotSeq) |->
     IF SlotSeq[i][1] \in {0, 1} THEN <<SlotSeq[i][1]>> ELSE <<>>]

\* that frame, and the frames in which one camera misses one joint type
OnePersonLayouts ==
  {OnePerson} \cup
  {[OnePerson EXCEPT ![i] = <<>>] : i \in {k \in 1 .. Len(SlotSeq) : OnePerson[k] # <<>>}}

\* the frame of two people, seen by cameras 0 and 1 in the root joint type
\* and its child: the first candidate of every list is of the first person,
\* with rays through 0, the second of the second person, with rays through b
TwoPersons(b) ==
  [i \in 1 .. Len(SlotSeq) |->
     IF /\ SlotSeq[i][1] \in {0, 1}
        /\ SlotSeq[i][2] \in {jointOrders[3][1], jointOrders[3][2]}
     THEN <<0, b>> ELSE <<>>]

TwoPersonLayouts == {TwoPersons(b) : b \in Origins \ {0}}

\* the place of the candidate with that ID in its list
PlaceOf(js, id) ==
  CHOOSE j \in 1 .. Cardinality(Origins) :
    \E slot \in DOMAIN js : j <= Len(js[slot]) /\ js[slot][j].ID = id

\* the part affinities of a frame: any value for any stored pair; in the
\* frames of two people EPS for the two candidates of one person and one
\* value for all the pairs of candidates of different people
PAFChoices(layout) ==
  LET js == LoadJoints(layout)
      keys == UNION {PAFKeys(js, v) : v \in Views}
  IN IF layout \in TwoPersonLayouts
     THEN {[k \in keys |-> IF PlaceOf(js, k[1]) = PlaceOf(js, k[2]) THEN EPS ELSE x] :
             x \in PAFValues}
     ELSE [keys -> PAFValues]

\* a bone-length limit is read only for a non-root joint type that two
\* cameras can see: the calibrated table is drawn for those frames only
BoneReadable(layout) ==
  \E type \in CandTypes \ {rootJointType} :
    Cardinality({i \in 1 .. Len(layout) : SlotSeq[i][2] = type /\ layout[i] # <<>>}) >= 2

Init ==
  /\ \E layout \in {l \in UNION {Layouts(Len(SlotSeq), MaxJoints, used) : used \in FrameKinds} :
                       Anchored(l)} \cup OnePersonLayouts \cup TwoPersonLayouts :
       /\ joints = LoadJoints(layout)
       /\ \E p \in PAFChoices(layout) :
            PAFs = [v \in Views |-> [k \in PAFKeys(joints, v) |-> p[k]]]
       /\ epipolars = computeEpipolar(joints, MAX_EPIPOLAR_DISTANCE)
       /\ maxBoneLengths \in {noFrames} \cup
            (IF BoneReadable(layout)
             THEN {[k \in BoneKeys |-> len] : len \in BoneLengths} ELSE {})
  /\ setCalls = {}
  /\ testRays = <<>>
  /\ testConfs = <<>>
  /\ intersection = NoPoint
  /\ distance = NoDistance
  /\ viewsSize = viewNum
  /\ viewOrderI = 1
  /\ jointOrderI = 1
  /\ viewOrder = <<>>
  /\ jointOrder = <<>>
  /\ cluster = NewCluster
  /\ historyScores = [i \in 0 .. typeNum - 1 |-> 0]
  /\ preservedClusters = <<>>
  /\ count = 0
  /\ stack = <<>>
  /\ phase = "search"
  /\ VJCPersons = noFrames
  /\ VJPChoices = noFrames
  /\ multiPersonPose = <<>>
  /\ clusterI = 0
  /\ accepted = {}

(* ------------------------------ lookups ------------------------------- *)

\* a lookup that returns a default value for a missing key, as operator[]
\* does, instead of PAFs.at
hasPAFDefault(view, joint1, joint2) == TRUE

\* View::getPAF: the key joint1.ID + joint2.ID * I32 first, then the key
\* joint1.ID * I32 + joint2.ID (PAFs.at throws when neither is stored);
\* hasPAF: the lookup returns, it does not throw
hasPAF(view, joint1, joint2) ==
  \/ Key(joint1.ID, joint2.ID) \in DOMAIN PAFs[view]
  \/ Key(joint2.ID, joint1.ID) \in DOMAIN PAFs[view]

getPAF(view, joint1, joint2) ==
  IF Key(joint1.ID, joint2.ID) \in DOMAIN PAFs[view]
  THEN PAFs[view][Key(joint1.ID, joint2.ID)]
  ELSE PAFs[view][Key(joint2.ID, joint1.ID)]

\* MultiView::getEpipolar, the same convention
hasEpipolar(joint1, joint2) ==
  \/ Key(joint1.ID, joint2.ID) \in DOMAIN epipolars
  \/ Key(joint2.ID, joint1.ID) \in DOMAIN epipolars

getEpipolar(joint1, joint2) ==
  IF Key(joint1.ID, joint2.ID) \in DOMAIN epipolars
  THEN epipolars[Key(joint1.ID, joint2.ID)]
  ELSE epipolars[Key(joint2.ID, joint1.ID)]

\* QuickPose::getMaxBoneLength
getMaxBoneLength(jointTypeA, jointTypeB) ==
  IF Key(jointTypeA, jointTypeB) \in DOMAIN maxBoneLengths
  THEN maxBoneLengths[Key(jointTypeA, jointTypeB)]
  ELSE IF Key(jointTypeB, jointTypeA) \in DOMAIN maxBoneLengths
       THEN maxBoneLengths[Key(jointTypeB, jointTypeA)]
       ELSE FLT_MAX

(* ------------------------------ QCluster ------------------------------ *)

getJoint(cl, view, type) ==
  IF <<view, type>> \in DOMAIN cl.choices THEN cl.choices[<<view, type>>] ELSE NO_CHOICE

setJoint(cl, view, type, choice) ==
  [cl EXCEPT !.choices =
     [e \in IF choice = NO_CHOICE THEN DOMAIN @ \ {<<view, type>>}
            ELSE DOMAIN @ \cup {<<view, type>>} |->
        IF e = <<view, type>> THEN choice ELSE @[e]]]

Zero == [num |-> 0, den |-> 1]

WorldPos(cl, type) == IF type \in DOMAIN cl.worldPos THEN cl.worldPos[type] ELSE Zero

\* the Joint a choice of (view, type) names; choices count from 0
JointOf(view, type, choice) == JointsOf(joints, view, type)[choice + 1]

(* ---------------------------- triangulation --------------------------- *)

\* the point of the first ray instead of the point nearest to all rays
multiRayIntersectFirst(rays) == [num |-> rays[1].origin, den |-> 1]

\* MathUtils::multiRayIntersect(rays, size) on the frames of the model
multiRayIntersect(rays) ==
  [num |-> SumSeq([i \in 1 .. Len(rays) |-> rays[i].origin]), den |-> Len(rays)]

\* Vec3::distance(a, b) > length, for two points of the line
FartherThan(a, b, length) ==
  Abs(a.num * b.den - b.num * a.den) > length * a.den * b.den

\* the rays QuickPose::computeWorldPos collects: the cameras with a choice
\* for jointType, in the order of viewOrder
RECURSIVE CollectRays(_, _, _, _)
CollectRays(cl, order, jointType, viewI) ==
  IF viewI = viewNum THEN <<>>
  ELSE LET view == order[viewI + 1]
           choice == getJoint(cl, view, jointType)
       IN (IF choice = NO_CHOICE THEN <<>>
           ELSE <<JointOf(view, jointType, choice).ray>>)
          \o CollectRays(cl, order, jointType, viewI + 1)

\* QuickPose::computeWorldPos without the test of line 149
computeWorldPosNoTest(cl, jointType) ==
  LET rays == CollectRays(cl, viewOrder, jointType, 0)
  IN [ok |-> TRUE,
      cluster |-> [cl EXCEPT !.worldPos =
                     [t \in DOMAIN @ \cup {jointType} |->
                        IF t = jointType THEN multiRayIntersect(rays) ELSE @[t]]]]

\* QuickPose::computeWorldPos with the test of line 149 off by one
computeWorldPosOneRay(cl, jointType) ==
  LET rays == CollectRays(cl, viewOrder, jointType, 0)
  IN IF Len(rays) < 1 THEN [ok |-> FALSE, cluster |-> cl]
     ELSE [ok |-> TRUE,
           cluster |-> [cl EXCEPT !.worldPos =
                          [t \in DOMAIN @ \cup {jointType} |->
                             IF t = jointType THEN multiRayIntersect(rays) ELSE @[t]]]]

\* QuickPose::computeWorldPos: [ok, cluster]
computeWorldPos(cl, jointType) ==
  LET rays == CollectRays(cl, viewOrder, jointType, 0)
  IN IF Len(rays) < 2 THEN [ok |-> FALSE, cluster |-> cl]
     ELSE [ok |-> TRUE,
           cluster |-> [cl EXCEPT !.worldPos =
                          [t \in DOMAIN @ \cup {jointType} |->
                             IF t = jointType THEN multiRayIntersect(rays) ELSE @[t]]]]

(* --------------------- compute(viewI, jointI) ------------------------- *)

\* an activation record of the recursive compute.  pc: "loop" (in the
\* candidate loop, `choice` is the next candidate), "inShift" (inside the
\* recursive call of a candidate), "inSkip" (inside the recursive call of
\* the skip strategy), "ret" (returned, not yet popped by the caller).
\* entryChoices and entryScore record the cluster at the call's entry.
Frame(viewI, jointI) ==
  [viewI |-> viewI, jointI |-> jointI, pc |-> "loop", choice |-> 0,
   successfulShift |-> FALSE, originalScore |-> 0, view0Choice |-> NO_CHOICE,
   entryChoices |-> cluster.choices, entryScore |-> cluster.score]

Top == stack[Len(stack)]
SetTop(f) == [stack EXCEPT ![Len(stack)] = f]

Running == phase = "search" /\ stack # <<>>

InBody == Running /\ Top.pc = "loop" /\ Top.jointI < Len(jointOrder)

CurView == viewOrder[Top.viewI + 1]
CurType == jointOrder[Top.jointI + 1]
IsNotRoot == Top.jointI # 0
ParentType == Parent(CurType)
\* line 179 keeping the initial value 0 of line 178 when the camera holds
\* parent candidates but none is assigned
ParentChoiceDefault ==
  IF IsNotRoot /\ (getJoint(cluster, CurView, ParentType) # NO_CHOICE
                   \/ JointsOf(joints, CurView, ParentType) = <<>>)
  THEN getJoint(cluster, CurView, ParentType) ELSE 0

ParentChoice == IF IsNotRoot THEN getJoint(cluster, CurView, ParentType) ELSE 0
ChoiceNum == Len(JointsOf(joints, CurView, CurType))

\* 1. Parent must exist (have choice)
ParentGate == ~IsNotRoot \/ ParentChoice # NO_CHOICE

InLoop == InBody /\ ParentGate /\ Top.choice < ChoiceNum
LoopDone == InBody /\ (~ParentGate \/ Top.choice >= ChoiceNum)

\* lines 192-195 reading the affinity with the first parent candidate of
\* the camera instead of the chosen one
ScorePAFFirstParent(choice) ==
  IF IsNotRoot
  THEN getPAF(CurView, JointOf(CurView, ParentType, 0),
              JointOf(CurView, CurType, choice))
  ELSE 0

ScorePAF(choice) ==
  IF IsNotRoot
  THEN getPAF(CurView, JointOf(CurView, ParentType, ParentChoice),
              JointOf(CurView, CurType, choice))
  ELSE 0

\* line 196 left out
PAFGateOff(choice) == TRUE

\* 2. PAF value must be greater than 0
PAFGate(choice) == ~IsNotRoot \/ ~(ScorePAF(choice) < EPS)

\* the cameras before viewI in the order that have a choice for the type
PrevViews == {viewOrder[i + 1] : i \in {k \in 0 .. Top.viewI - 1 :
                 getJoint(cluster, viewOrder[k + 1], CurType) # NO_CHOICE}}

Epipolar(prevView, choice) ==
  getEpipolar(JointOf(prevView, CurType, getJoint(cluster, prevView, CurType)),
              JointOf(CurView, CurType, choice))

\* lines 208-211 left out
EpipolarGateOff(choice) == TRUE

\* 3. All epipolars must be greater than 0
EpipolarGate(choice) == \A prevView \in PrevViews : ~(Epipolar(prevView, choice) < EPS)

\* scoreEpi of lines 200-214, accumulated camera by camera
RECURSIVE ScoreEpiFrom(_, _)
ScoreEpiFrom(choice, prevViewI) ==
  IF prevViewI >= Top.viewI THEN 0
  ELSE (IF viewOrder[prevViewI + 1] \in PrevViews
        THEN Epipolar(viewOrder[prevViewI + 1], choice) ELSE 0)
       + ScoreEpiFrom(choice, prevViewI + 1)

ScoreEpi(choice) == ScoreEpiFrom(choice, 0)

\* the terminal case: the pass's joint order is exhausted
Preserve ==
  /\ Running /\ Top.pc = "loop" /\ Top.jointI = Len(jointOrder)
  /\ preservedClusters' = Append(preservedClusters, cluster)
  /\ count' = count + 1
  /\ stack' = SetTop([Top EXCEPT !.pc = "ret"])
  /\ UNCHANGED <<inputs, viewOrderI, jointOrderI, viewOrder, jointOrder, cluster,
                 historyScores, phase, resolver>>

\* a candidate that fails gate 2 or 3, with a loop that does not go on to
\* the next candidate
RejectChoiceAgain ==
  /\ InLoop
  /\ ~(PAFGate(Top.choice) /\ EpipolarGate(Top.choice))
  /\ UNCHANGED vars

\* a candidate that fails gate 2 or 3: continue
RejectChoice ==
  /\ InLoop
  /\ ~(PAFGate(Top.choice) /\ EpipolarGate(Top.choice))
  /\ stack' = SetTop([Top EXCEPT !.choice = @ + 1])
  /\ UNCHANGED <<inputs, count, viewOrderI, jointOrderI, viewOrder, jointOrder, cluster,
                 historyScores, preservedClusters, phase, resolver>>

\* lines 220-221 with the epipolar terms left out of the score
ShiftedNoEpi(choice) ==
  [setJoint(cluster, CurView, CurType, choice)
     EXCEPT !.score = cluster.score + ScorePAF(choice)]

\* the cluster after lines 220-221
Shifted(choice) ==
  [setJoint(cluster, CurView, CurType, choice)
     EXCEPT !.score = cluster.score + ScorePAF(choice) + ScoreEpi(choice)]

\* a candidate that passes, not at the last camera: shift to the next view
ShiftView ==
  /\ InLoop
  /\ PAFGate(Top.choice) /\ EpipolarGate(Top.choice)
  /\ Top.viewI # viewNum - 1
  /\ cluster' = Shifted(Top.choice)
  /\ stack' = Append(SetTop([Top EXCEPT !.pc = "inShift", !.originalScore = cluster.score]),
                     [Frame(Top.viewI + 1, Top.jointI) EXCEPT
                        !.entryChoices = cluster'.choices, !.entryScore = cluster'.score])
  /\ UNCHANGED <<inputs, count, viewOrderI, jointOrderI, viewOrder, jointOrder,
                 historyScores, preservedClusters, phase, resolver>>

\* lines 233-241, 278-286 without the comparison
BoneCheckOff(cl) == cl

\* lines 233-241, 278-286 with the comparison of lines 237 and 282 turned
\* round: the assignment is undone when the bone is short enough
BoneCheckInverted(cl) ==
  IF /\ IsNotRoot
     /\ ~FartherThan(WorldPos(cl, ParentType), WorldPos(cl, CurType),
                     getMaxBoneLength(CurType, ParentType))
  THEN [setJoint(cl, viewOrder[1], CurType, NO_CHOICE)
          EXCEPT !.score = historyScores[Top.jointI - 1]]
  ELSE cl

\* lines 233-241, 278-286 undoing the main camera's assignment of the
\* parent joint type instead of the joint type's own
BoneCheckParent(cl) ==
  IF /\ IsNotRoot
     /\ FartherThan(WorldPos(cl, ParentType), WorldPos(cl, CurType),
                    getMaxBoneLength(CurType, ParentType))
  THEN [setJoint(cl, viewOrder[1], ParentType, NO_CHOICE)
          EXCEPT !.score = historyScores[Top.jointI - 1]]
  ELSE cl

\* 4. Bone length must satisfy the constraints (lines 233-241, 278-286)
BoneCheck(cl) ==
  IF /\ IsNotRoot
     /\ FartherThan(WorldPos(cl, ParentType), WorldPos(cl, CurType),
                    getMaxBoneLength(CurType, ParentType))
  THEN [setJoint(cl, viewOrder[1], CurType, NO_CHOICE)
          EXCEPT !.score = historyScores[Top.jointI - 1]]
  ELSE cl

\* a candidate that passes at the last camera: shift to the next joint
ShiftJoint ==
  /\ InLoop
  /\ PAFGate(Top.choice) /\ EpipolarGate(Top.choice)
  /\ Top.viewI = viewNum - 1
  /\ LET set == Shifted(Top.choice)
         view0Choice == getJoint(set, viewOrder[1], CurType)
         next == BoneCheck(computeWorldPos(set, CurType).cluster)
     IN /\ cluster' = next
        /\ historyScores' = [historyScores EXCEPT ![Top.jointI] = next.score]
        /\ stack' = Append(SetTop([Top EXCEPT !.pc = "inShift",
                                              !.originalScore = cluster.score,
                                              !.view0Choice = view0Choice]),
                           [Frame(0, Top.jointI + 1) EXCEPT
                              !.entryChoices = next.choices, !.entryScore = next.score])
  /\ UNCHANGED <<inputs, count, viewOrderI, jointOrderI, viewOrder, jointOrder,
                 preservedClusters, phase, resolver>>

Caller == stack[Len(stack) - 1]
Returned == Running /\ Top.pc = "ret" /\ Len(stack) > 1

\* lines 246 and 253-256 without taking the candidate back (line 253)
AfterShiftKeepChoice ==
  /\ Returned /\ Caller.pc = "inShift"
  /\ LET f == Caller
         view == viewOrder[f.viewI + 1]
         type == jointOrder[f.jointI + 1]
         c1 == IF f.viewI = viewNum - 1
               THEN setJoint(cluster, viewOrder[1], type, f.view0Choice)
               ELSE cluster
     IN /\ cluster' = [c1 EXCEPT !.score = f.originalScore]
        /\ stack' = Append(SubSeq(stack, 1, Len(stack) - 2),
                           [f EXCEPT !.pc = "loop", !.choice = @ + 1,
                                     !.successfulShift = TRUE])
  /\ UNCHANGED <<inputs, count, viewOrderI, jointOrderI, viewOrder, jointOrder,
                 historyScores, preservedClusters, phase, resolver>>

\* the recursive call of a candidate returned: lines 246 and 253-256
AfterShift ==
  /\ Returned /\ Caller.pc = "inShift"
  /\ LET f == Caller
         view == viewOrder[f.viewI + 1]
         type == jointOrder[f.jointI + 1]
         c1 == IF f.viewI = viewNum - 1
               THEN setJoint(cluster, viewOrder[1], type, f.view0Choice)
               ELSE cluster
     IN /\ cluster' = [setJoint(c1, view, type, NO_CHOICE) EXCEPT !.score = f.originalScore]
        /\ stack' = Append(SubSeq(stack, 1, Len(stack) - 2),
                           [f EXCEPT !.pc = "loop", !.choice = @ + 1,
                                     !.successfulShift = TRUE])
  /\ UNCHANGED <<inputs, count, viewOrderI, jointOrderI, viewOrder, jointOrder,
                 historyScores, preservedClusters, phase, resolver>>

\* the skip strategy at the last camera: lines 265-289
SkipLastView ==
  /\ LoopDone
  /\ Top.viewI = viewNum - 1
  /\ LET view0Choice == getJoint(cluster, viewOrder[1], CurType)
         wp == computeWorldPos(cluster, CurType)
         next == IF ~wp.ok
                 THEN [setJoint(cluster, viewOrder[1], CurType, NO_CHOICE) EXCEPT
                         !.score = IF Top.jointI = 0 THEN 0
                                   ELSE historyScores[Top.jointI - 1]]
                 ELSE BoneCheck(wp.cluster)
     IN /\ cluster' = next
        /\ historyScores' = [historyScores EXCEPT ![Top.jointI] = next.score]
        /\ stack' = Append(SetTop([Top EXCEPT !.pc = "inSkip",
                                              !.originalScore = cluster.score,
                                              !.view0Choice = view0Choice]),
                           [Frame(0, Top.jointI + 1) EXCEPT
                              !.entryChoices = next.choices, !.entryScore = next.score])
  /\ UNCHANGED <<inputs, count, viewOrderI, jointOrderI, viewOrder, jointOrder,
                 preservedClusters, phase, resolver>>

\* lines 294-298 with the return of line 295 in force
SkipMidViewWrong ==
  /\ LoopDone
  /\ Top.viewI # viewNum - 1 /\ Top.viewI # 0
  /\ stack' = IF Top.successfulShift
              THEN SetTop([Top EXCEPT !.pc = "ret"])
              ELSE Append(SetTop([Top EXCEPT !.pc = "inSkip"]),
                          Frame(Top.viewI + 1, Top.jointI))
  /\ UNCHANGED <<inputs, count, viewOrderI, jointOrderI, viewOrder, jointOrder, cluster,
                 historyScores, preservedClusters, phase, resolver>>

\* the skip strategy at a camera that is neither first nor last: lines 294-298
SkipMidView ==
  /\ LoopDone
  /\ Top.viewI # viewNum - 1 /\ Top.viewI # 0
  /\ stack' = Append(SetTop([Top EXCEPT !.pc = "inSkip"]),
                     Frame(Top.viewI + 1, Top.jointI))
  /\ UNCHANGED <<inputs, count, viewOrderI, jointOrderI, viewOrder, jointOrder, cluster,
                 historyScores, preservedClusters, phase, resolver>>

\* lines 300-304 without the test of successfulShift
SkipMainViewAlways ==
  /\ LoopDone
  /\ Top.viewI # viewNum - 1 /\ Top.viewI = 0
  /\ historyScores' = [historyScores EXCEPT ![Top.jointI] = cluster.score]
  /\ stack' = Append(SetTop([Top EXCEPT !.pc = "inSkip"]),
                     Frame(0, Top.jointI + 1))
  /\ UNCHANGED <<inputs, count, viewOrderI, jointOrderI, viewOrder, jointOrder, cluster,
                 preservedClusters, phase, resolver>>

\* lines 300-304 without line 302: the score history is not written
SkipMainViewNoHistory ==
  /\ LoopDone
  /\ Top.viewI # viewNum - 1 /\ Top.viewI = 0
  /\ ~Top.successfulShift
  /\ stack' = Append(SetTop([Top EXCEPT !.pc = "inSkip"]),
                     Frame(0, Top.jointI + 1))
  /\ UNCHANGED <<inputs, count, viewOrderI, jointOrderI, viewOrder, jointOrder, cluster,
                 historyScores, preservedClusters, phase, resolver>>

\* the skip strategy at the main camera, no candidate shifted: lines 300-304
SkipMainView ==
  /\ LoopDone
  /\ Top.viewI # viewNum - 1 /\ Top.viewI = 0
  /\ ~Top.successfulShift
  /\ historyScores' = [historyScores EXCEPT ![Top.jointI] = cluster.score]
  /\ stack' = Append(SetTop([Top EXCEPT !.pc = "inSkip"]),
                     Frame(0, Top.jointI + 1))
  /\ UNCHANGED <<inputs, count, viewOrderI, jointOrderI, viewOrder, jointOrder, cluster,
                 preservedClusters, phase, resolver>>

\* the main camera after a successful shift: no skip, the call returns
NoSkip ==
  /\ LoopDone
  /\ Top.viewI # viewNum - 1 /\ Top.viewI = 0
  /\ Top.successfulShift
  /\ stack' = SetTop([Top EXCEPT !.pc = "ret"])
  /\ UNCHANGED <<inputs, count, viewOrderI, jointOrderI, viewOrder, jointOrder, cluster,
                 historyScores, preservedClusters, phase, resolver>>

\* lines 291-292 without line 291: the main camera's candidate is not put back
AfterSkipNoRestore ==
  /\ Returned /\ Caller.pc = "inSkip"
  /\ LET f == Caller
     IN /\ cluster' = IF f.viewI = viewNum - 1
                      THEN [cluster EXCEPT !.score = f.originalScore]
                      ELSE cluster
        /\ stack' = Append(SubSeq(stack, 1, Len(stack) - 2), [f EXCEPT !.pc = "ret"])
  /\ UNCHANGED <<inputs, count, viewOrderI, jointOrderI, viewOrder, jointOrder,
                 historyScores, preservedClusters, phase, resolver>>

\* lines 291-292 without line 292: the score is not restored
AfterSkipNoScore ==
  /\ Returned /\ Caller.pc = "inSkip"
  /\ LET f == Caller
         type == jointOrder[f.jointI + 1]
     IN /\ cluster' = IF f.viewI = viewNum - 1
                      THEN setJoint(cluster, viewOrder[1], type, f.view0Choice)
                      ELSE cluster
        /\ stack' = Append(SubSeq(stack, 1, Len(stack) - 2), [f EXCEPT !.pc = "ret"])
  /\ UNCHANGED <<inputs, count, viewOrderI, jointOrderI, viewOrder, jointOrder,
                 historyScores, preservedClusters, phase, resolver>>

\* the recursive call of the skip strategy returned: lines 291-292, then
\* the call itself returns
AfterSkip ==
  /\ Returned /\ Caller.pc = "inSkip"
  /\ LET f == Caller
         type == jointOrder[f.jointI + 1]
     IN /\ cluster' = IF f.viewI = viewNum - 1
                      THEN [setJoint(cluster, viewOrder[1], type, f.view0Choice)
                              EXCEPT !.score = f.originalScore]
                      ELSE cluster
        /\ stack' = Append(SubSeq(stack, 1, Len(stack) - 2), [f EXCEPT !.pc = "ret"])
  /\ UNCHANGED <<inputs, count, viewOrderI, jointOrderI, viewOrder, jointOrder,
                 historyScores, preservedClusters, phase, resolver>>

(* ------------------------- compute(multiview) ------------------------- *)

\* the passes the model runs
PassViewOrders == <<viewOrders[1], viewOrders[2]>>
PassJointOrders == <<jointOrders[3]>>

\* lines 125-130: the next pass of the two driving loops starts
StartPass ==
  /\ phase = "search" /\ stack = <<>>
  /\ viewOrderI <= Len(PassViewOrders)
  /\ viewOrder' = PassViewOrders[viewOrderI]
  /\ jointOrder' = PassJointOrders[jointOrderI]
  /\ cluster' = [cluster EXCEPT !.mainView = PassViewOrders[viewOrderI][1]]
  /\ stack' = <<[Frame(0, 0) EXCEPT !.entryChoices = cluster.choices,
                                    !.entryScore = cluster.score]>>
  /\ UNCHANGED <<inputs, count, viewOrderI, jointOrderI, historyScores, preservedClusters, phase, resolver>>

\* compute(multiview, cluster, 0, 0) returned to the driving loops
EndPass ==
  /\ Running /\ Top.pc = "ret" /\ Len(stack) = 1
  /\ stack' = <<>>
  /\ IF jointOrderI < Len(PassJointOrders)
     THEN jointOrderI' = jointOrderI + 1 /\ viewOrderI' = viewOrderI
     ELSE jointOrderI' = 1 /\ viewOrderI' = viewOrderI + 1
  /\ UNCHANGED <<inputs, count, viewOrder, jointOrder, cluster, historyScores,
                 preservedClusters, phase, resolver>>

(* --------------------------- postProcessing --------------------------- *)

maxPersonNum == 10

\* the tables of lines 310-326 hold -1 / NO_CHOICE wherever nothing was
\* written; the model stores the written entries only
VJCPerson(view, type, choice) ==
  IF <<view, type, choice>> \in DOMAIN VJCPersons
  THEN VJCPersons[<<view, type, choice>>] ELSE -1

VJPChoice(view, type, person) ==
  IF <<view, type, person>> \in DOMAIN VJPChoices
  THEN VJPChoices[<<view, type, person>>] ELSE NO_CHOICE

\* std::sort with the comparator score1 > score2 leaves the order of equal
\* scores open.  SortByScore keeps equal scores in the order of the array;
\* the model runs the resolver on the clusters sorted that way from the
\* front and from the back of the preserved array.
SortByScore(cls) ==
  LET n == Len(cls)
      before(i) == {j \in 1 .. n : \/ cls[j].score > cls[i].score
                                   \/ cls[j].score = cls[i].score /\ j < i}
  IN [p \in 1 .. n |-> cls[CHOOSE i \in 1 .. n : Cardinality(before(i)) = p - 1]]

Reverse(s) == [i \in 1 .. Len(s) |-> s[Len(s) + 1 - i]]

SortedOrders(cls) == {SortByScore(cls), SortByScore(Reverse(cls))}

\* lines 307-331: the tables are built and the clusters sorted
PostProcessing ==
  /\ phase = "search" /\ stack = <<>>
  /\ viewOrderI > Len(PassViewOrders)
  /\ preservedClusters' \in SortedOrders(preservedClusters)
  /\ VJCPersons' = noFrames
  /\ VJPChoices' = noFrames
  /\ multiPersonPose' = <<>>
  /\ clusterI' = 0
  /\ accepted' = {}
  /\ phase' = "resolve"
  /\ UNCHANGED <<inputs, count, viewOrderI, jointOrderI, viewOrder, jointOrder, cluster,
                 historyScores, stack>>

\* the pairs (type, view) a loop nest "for type, for view" gets past its
\* two `continue`s with: the type has a main-camera choice, the view a choice
Claimed(cl, type, view) ==
  /\ getJoint(cl, cl.mainView, type) # NO_CHOICE
  /\ getJoint(cl, view, type) # NO_CHOICE

\* those pairs as <<view, type>>, and the triples <<view, type, choice>>
\* the cluster holds at them
Claims(cl) == {e \in DOMAIN cl.choices : Claimed(cl, e[2], e[1])}
Triples(cl) == {<<e[1], e[2], cl.choices[e]>> : e \in Claims(cl)}

\* those pairs, numbered type * viewNum + view, in the order of the loop nest
ClaimSeq(cl) == SetToSeq({e[2] * viewNum + e[1] : e \in Claims(cl)})

\* lines 337-358 over the claimed pairs, in the order of the loop nest
RECURSIVE ScanOwners(_, _, _)
ScanOwners(cl, claims, st) ==
  IF claims = <<>> \/ st.isConflicting THEN st
  ELSE LET type == Head(claims) \div viewNum
           view == Head(claims) % viewNum
           owner == VJCPerson(view, type, getJoint(cl, view, type))
       IN ScanOwners(cl, Tail(claims),
            IF owner = -1 THEN [st EXCEPT !.isContributing = TRUE]
            ELSE IF st.personID = -1 THEN [st EXCEPT !.personID = owner]
            ELSE IF st.personID # owner THEN [st EXCEPT !.isConflicting = TRUE]
            ELSE st)

\* the owner scan with isContributing starting as true
OwnersContributing(cl) ==
  ScanOwners(cl, ClaimSeq(cl),
             [isConflicting |-> FALSE, isContributing |-> TRUE, personID |-> -1])

Owners(cl) ==
  ScanOwners(cl, ClaimSeq(cl),
             [isConflicting |-> FALSE, isContributing |-> FALSE, personID |-> -1])

\* lines 370-384 looking at the main camera only
ContradictsMainOnly(cl, personID) ==
  \E e \in Claims(cl) :
    /\ e[1] = cl.mainView
    /\ VJPChoice(e[1], e[2], personID) # NO_CHOICE
    /\ cl.choices[e] # VJPChoice(e[1], e[2], personID)

\* lines 370-384: a choice that differs from the person's recorded choice
Contradicts(cl, personID) ==
  \E e \in Claims(cl) :
    /\ VJPChoice(e[1], e[2], personID) # NO_CHOICE
    /\ cl.choices[e] # VJPChoice(e[1], e[2], personID)

\* a Pose: hasJoint is the set of joint types whose flag is true, jointPos
\* the positions written (the others are the zero vector)
NewPose(personID) ==
  [ID |-> personID, hasJoint |-> {}, jointPos |-> noFrames, writer |-> noFrames]

\* lines 388-404 without the test of hasJoint at line 399: the position is
\* written for every joint type of the cluster
CommitLastWriter(cl, personID, poses) ==
  LET claims == Claims(cl)
      types  == {c[2] : c \in claims}
      pose   == poses[personID + 1]
  IN /\ VJCPersons' = [t \in DOMAIN VJCPersons \cup
                               {<<c[1], c[2], getJoint(cl, c[1], c[2])>> : c \in claims} |->
                         IF \E c \in claims : t = <<c[1], c[2], getJoint(cl, c[1], c[2])>>
                         THEN personID ELSE VJCPersons[t]]
     /\ VJPChoices' = [t \in DOMAIN VJPChoices \cup
                               {<<c[1], c[2], personID>> : c \in claims} |->
                         IF \E c \in claims : t = <<c[1], c[2], personID>>
                         THEN getJoint(cl, t[1], t[2]) ELSE VJPChoices[t]]
     /\ multiPersonPose' =
          [poses EXCEPT ![personID + 1] =
             [pose EXCEPT
                !.hasJoint = pose.hasJoint \cup types,
                !.jointPos = [type \in DOMAIN pose.jointPos \cup types |->
                                IF type \in types THEN WorldPos(cl, type)
                                ELSE pose.jointPos[type]],
                !.writer   = [type \in DOMAIN pose.writer \cup types |->
                                IF type \in types THEN clusterI + 1
                                ELSE pose.writer[type]]]]

\* lines 388-404 without line 398: the (view, joint, person) => choice table
\* is not written
CommitOneTable(cl, personID, poses) ==
  LET claims == Claims(cl)
      types  == {c[2] : c \in claims}
      pose   == poses[personID + 1]
      fresh  == types \ pose.hasJoint
  IN /\ VJCPersons' = [t \in DOMAIN VJCPersons \cup
                               {<<c[1], c[2], getJoint(cl, c[1], c[2])>> : c \in claims} |->
                         IF \E c \in claims : t = <<c[1], c[2], getJoint(cl, c[1], c[2])>>
                         THEN personID ELSE VJCPersons[t]]
     /\ VJPChoices' = VJPChoices
     /\ multiPersonPose' =
          [poses EXCEPT ![personID + 1] =
             [pose EXCEPT
                !.hasJoint = pose.hasJoint \cup fresh,
                !.jointPos = [type \in DOMAIN pose.jointPos \cup fresh |->
                                IF type \in fresh THEN WorldPos(cl, type)
                                ELSE pose.jointPos[type]],
                !.writer   = [type \in DOMAIN pose.writer \cup fresh |->
                                IF type \in fresh THEN clusterI + 1
                                ELSE pose.writer[type]]]]

\* lines 388-404: the triples of the cluster are committed to personID.
\* writer[type] records the index of the cluster that wrote jointPos[type].
Commit(cl, personID, poses) ==
  LET claims == Claims(cl)
      types  == {c[2] : c \in claims}
      pose   == poses[personID + 1]
      fresh  == types \ pose.hasJoint
  IN /\ VJCPersons' = [t \in DOMAIN VJCPersons \cup
                               {<<c[1], c[2], getJoint(cl, c[1], c[2])>> : c \in claims} |->
                         IF \E c \in claims : t = <<c[1], c[2], getJoint(cl, c[1], c[2])>>
                         THEN personID ELSE VJCPersons[t]]
     /\ VJPChoices' = [t \in DOMAIN VJPChoices \cup
                               {<<c[1], c[2], personID>> : c \in claims} |->
                         IF \E c \in claims : t = <<c[1], c[2], personID>>
                         THEN getJoint(cl, t[1], t[2]) ELSE VJPChoices[t]]
     /\ multiPersonPose' =
          [poses EXCEPT ![personID + 1] =
             [pose EXCEPT
                !.hasJoint = pose.hasJoint \cup fresh,
                !.jointPos = [type \in DOMAIN pose.jointPos \cup fresh |->
                                IF type \in fresh THEN WorldPos(cl, type)
                                ELSE pose.jointPos[type]],
                !.writer   = [type \in DOMAIN pose.writer \cup fresh |->
                                IF type \in fresh THEN clusterI + 1
                                ELSE pose.writer[type]]]]

Resolving == phase = "resolve" /\ clusterI < Len(preservedClusters)
CurCluster == preservedClusters[clusterI + 1]

\* line 360: the cluster spans two persons, or claims nothing unowned
RejectCluster ==
  /\ Resolving
  /\ Owners(CurCluster).isConflicting \/ ~Owners(CurCluster).isContributing
  /\ clusterI' = clusterI + 1
  /\ UNCHANGED <<inputs, count, viewOrderI, jointOrderI, viewOrder, jointOrder, cluster,
                 historyScores, preservedClusters, stack, phase,
                 VJCPersons, VJPChoices, multiPersonPose, accepted>>

\* line 385 reached after the unowned triples of the cluster were written
\* to the (view, joint, choice) => person table
RejectContradictionPartial ==
  /\ Resolving
  /\ ~Owners(CurCluster).isConflicting /\ Owners(CurCluster).isContributing
  /\ Owners(CurCluster).personID # -1
  /\ Contradicts(CurCluster, Owners(CurCluster).personID)
  /\ VJCPersons' = [t \in DOMAIN VJCPersons \cup Triples(CurCluster) |->
                      IF t \in DOMAIN VJCPersons THEN VJCPersons[t]
                      ELSE Owners(CurCluster).personID]
  /\ clusterI' = clusterI + 1
  /\ UNCHANGED <<inputs, count, viewOrderI, jointOrderI, viewOrder, jointOrder, cluster,
                 historyScores, preservedClusters, stack, phase,
                 VJPChoices, multiPersonPose, accepted>>

\* line 385: the cluster contradicts a recorded choice of its person
RejectContradiction ==
  /\ Resolving
  /\ ~Owners(CurCluster).isConflicting /\ Owners(CurCluster).isContributing
  /\ Owners(CurCluster).personID # -1
  /\ Contradicts(CurCluster, Owners(CurCluster).personID)
  /\ clusterI' = clusterI + 1
  /\ UNCHANGED <<inputs, count, viewOrderI, jointOrderI, viewOrder, jointOrder, cluster,
                 historyScores, preservedClusters, stack, phase,
                 VJCPersons, VJPChoices, multiPersonPose, accepted>>

\* lines 362-368 and 388-404 without the isContributing test of line 360
AcceptNewPersonNoClaim ==
  /\ Resolving
  /\ ~Owners(CurCluster).isConflicting
  /\ Owners(CurCluster).personID = -1
  /\ Commit(CurCluster, Len(multiPersonPose),
            Append(multiPersonPose, NewPose(Len(multiPersonPose))))
  /\ clusterI' = clusterI + 1
  /\ accepted' = accepted \cup {clusterI + 1}
  /\ UNCHANGED <<inputs, count, viewOrderI, jointOrderI, viewOrder, jointOrder, cluster,
                 historyScores, preservedClusters, stack, phase>>

\* lines 362-368 and 388-404: the cluster starts a new person
AcceptNewPerson ==
  /\ Resolving
  /\ ~Owners(CurCluster).isConflicting /\ Owners(CurCluster).isContributing
  /\ Owners(CurCluster).personID = -1
  /\ Commit(CurCluster, Len(multiPersonPose),
            Append(multiPersonPose, NewPose(Len(multiPersonPose))))
  /\ clusterI' = clusterI + 1
  /\ accepted' = accepted \cup {clusterI + 1}
  /\ UNCHANGED <<inputs, count, viewOrderI, jointOrderI, viewOrder, jointOrder, cluster,
                 historyScores, preservedClusters, stack, phase>>

\* lines 369-404 without the rejections of lines 360 and 385: any cluster
\* that touches a person is merged into it
AcceptAnyMerge ==
  /\ Resolving
  /\ Owners(CurCluster).personID # -1
  /\ Commit(CurCluster, Owners(CurCluster).personID, multiPersonPose)
  /\ clusterI' = clusterI + 1
  /\ accepted' = accepted \cup {clusterI + 1}
  /\ UNCHANGED <<inputs, count, viewOrderI, jointOrderI, viewOrder, jointOrder, cluster,
                 historyScores, preservedClusters, stack, phase>>

\* lines 369-404: the cluster is merged into the person that owns its triples
AcceptMerge ==
  /\ Resolving
  /\ ~Owners(CurCluster).isConflicting /\ Owners(CurCluster).isContributing
  /\ Owners(CurCluster).personID # -1
  /\ ~Contradicts(CurCluster, Owners(CurCluster).personID)
  /\ Commit(CurCluster, Owners(CurCluster).personID, multiPersonPose)
  /\ clusterI' = clusterI + 1
  /\ accepted' = accepted \cup {clusterI + 1}
  /\ UNCHANGED <<inputs, count, viewOrderI, jointOrderI, viewOrder, jointOrder, cluster,
                 historyScores, preservedClusters, stack, phase>>

\* line 427
Return ==
  /\ phase = "resolve" /\ clusterI = Len(preservedClusters)
  /\ phase' = "done"
  /\ UNCHANGED <<inputs, count, viewOrderI, jointOrderI, viewOrder, jointOrder, cluster,
                 historyScores, preservedClusters, stack, resolver>>

Resolve ==
  \/ PostProcessing \/ RejectCluster \/ RejectContradiction \/ AcceptNewPerson
  \/ AcceptMerge \/ Return

Search ==
  \/ StartPass \/ Preserve \/ RejectChoice \/ ShiftView \/ ShiftJoint \/ AfterShift
  \/ SkipLastView \/ SkipMidView \/ SkipMainView \/ NoSkip \/ AfterSkip \/ EndPass

Next == Search \/ Resolve

Spec == Init /\ [][Next]_vars

\* the frames of Init with fewer than MaxJoints candidates
FairInit ==
  /\ Init
  /\ Cardinality(UNION {{<<v, t, i>> : i \in 1 .. Len(JointsOf(joints, v, t))} :
                          <<v, t>> \in Views \X Types}) < MaxJoints

\* compute runs on one thread without waiting on anything: a step that can
\* be taken is taken
FairSpec == FairInit /\ [][Next]_vars /\ WF_vars(Next)

(* ------------------------ the stores' set calls ----------------------- *)

\* the stores hold at most MaxEntries entries in the runs of StoreSpec
MaxEntries == 3

\* std::unordered_map::insert_or_assign
insert_or_assign(map, key, value) ==
  [k \in DOMAIN map \cup {key} |-> IF k = key THEN value ELSE map[k]]

\* View::setPAF: the key joint1.ID + joint2.ID * I32 only
setPAF(view, joint1, joint2, value) ==
  PAFs' = [PAFs EXCEPT ![view] = insert_or_assign(@, Key(joint1.ID, joint2.ID), value)]

\* MultiView::setEpipolar: the key joint1.ID + joint2.ID * I32 only
setEpipolar(joint1, joint2, value) ==
  epipolars' = insert_or_assign(epipolars, Key(joint1.ID, joint2.ID), value)

\* QuickPose::setMaxBoneLength: the key jointTypeA + jointTypeB * I16 only
setMaxBoneLength(jointTypeA, jointTypeB, length) ==
  maxBoneLengths' = insert_or_assign(maxBoneLengths, Key(jointTypeA, jointTypeB), length)

\* the candidates of the frame
Candidates == UNION {{joints[slot][j] : j \in 1 .. Len(joints[slot])} : slot \in DOMAIN joints}

\* the frame of the set calls: one root candidate at camera 0 and one at
\* camera 1
StoreFrame ==
  [i \in 1 .. Len(SlotSeq) |->
     IF SlotSeq[i] \in {<<0, rootJointType>>, <<1, rootJointType>>} THEN <<0>> ELSE <<>>]

\* the cameras, joint types and values of the set calls
StoreViews == {0, 1}
StoreTypes == {jointOrders[3][1], jointOrders[3][2]}
StoreScores == {0, ScoreOne}
StoreLengths == {1, 2}

\* the number of entries the stores hold
Entries ==
  SumSeq([i \in 1 .. viewNum |-> Cardinality(DOMAIN PAFs[i - 1])])
  + Cardinality(DOMAIN epipolars) + Cardinality(DOMAIN maxBoneLengths)

\* a call may add an entry while fewer than MaxEntries are stored, and may
\* always assign to a stored key
Room(map, key) == key \in DOMAIN map \/ Entries < MaxEntries

\* the stores of a MultiView and of a QuickPose before any set call
StoreInit ==
  /\ joints = LoadJoints(StoreFrame)
  /\ PAFs = [v \in Views |-> noFrames]
  /\ epipolars = noFrames
  /\ maxBoneLengths = noFrames
  /\ setCalls = {}
  /\ testRays = <<>>
  /\ testConfs = <<>>
  /\ intersection = NoPoint
  /\ distance = NoDistance
  /\ viewsSize = viewNum
  /\ viewOrderI = 1
  /\ jointOrderI = 1
  /\ viewOrder = <<>>
  /\ jointOrder = <<>>
  /\ cluster = NewCluster
  /\ historyScores = [i \in 0 .. typeNum - 1 |-> 0]
  /\ preservedClusters = <<>>
  /\ count = 0
  /\ stack = <<>>
  /\ phase = "search"
  /\ VJCPersons = noFrames
  /\ VJPChoices = noFrames
  /\ multiPersonPose = <<>>
  /\ clusterI = 0
  /\ accepted = {}

search == <<viewOrderI, jointOrderI, viewOrder, jointOrder, cluster, historyScores,
            preservedClusters, count, stack, phase>>

SetPAF ==
  \E view \in StoreViews, joint1 \in Candidates, joint2 \in Candidates, value \in PAFValues :
    /\ Room(PAFs[view], Key(joint1.ID, joint2.ID))
    /\ setPAF(view, joint1, joint2, value)
    /\ setCalls' = setCalls \cup {<<"PAF", view, joint1.ID, joint2.ID>>}
    /\ UNCHANGED <<joints, epipolars, maxBoneLengths, mathUtils, viewsSize, search, resolver>>

SetEpipolar ==
  \E joint1 \in Candidates, joint2 \in Candidates, value \in StoreScores :
    /\ Room(epipolars, Key(joint1.ID, joint2.ID))
    /\ setEpipolar(joint1, joint2, value)
    /\ setCalls' = setCalls \cup {<<"epipolar", joint1.ID, joint2.ID>>}
    /\ UNCHANGED <<joints, PAFs, maxBoneLengths, mathUtils, viewsSize, search, resolver>>

SetMaxBoneLength ==
  \E jointTypeA \in StoreTypes, jointTypeB \in StoreTypes, length \in StoreLengths :
    /\ Room(maxBoneLengths, Key(jointTypeA, jointTypeB))
    /\ setMaxBoneLength(jointTypeA, jointTypeB, length)
    /\ setCalls' = setCalls \cup {<<"bone", jointTypeA, jointTypeB>>}
    /\ UNCHANGED <<joints, PAFs, epipolars, mathUtils, viewsSize, search, resolver>>

StoreNext == SetPAF \/ SetEpipolar \/ SetMaxBoneLength

\* any sequence of set calls on empty stores; setCalls records the stores
\* and the argument pairs of the calls (the loader's calls that fill the
\* frame of Init are part of Init and are not recorded)
StoreSpec == StoreInit /\ [][StoreNext]_vars

(* ------------------- MathUtils::multiRayIntersect --------------------- *)

\* Ink::Vec3 is a triple, Ink::Mat3 a triple of rows.  The arithmetic is
\* exact: a direction is stored as DirUnit times the unit vector, a weight
\* in halves, and a point as the fraction num / den of a triple and a
\* number, so that no operation rounds.
DirUnit == 5

\* at most MaxRays rays are handed to multiRayIntersect
MaxRays == 3

Dot(a, b) == a[1] * b[1] + a[2] * b[2] + a[3] * b[3]

Cross(a, b) ==
  <<a[2] * b[3] - a[3] * b[2], a[3] * b[1] - a[1] * b[3], a[1] * b[2] - a[2] * b[1]>>

VecAdd(a, b) == <<a[1] + b[1], a[2] + b[2], a[3] + b[3]>>
VecSub(a, b) == <<a[1] - b[1], a[2] - b[2], a[3] - b[3]>>
VecScale(a, s) == <<a[1] * s, a[2] * s, a[3] * s>>

\* FMat operator+=, operator*(FMat, float), operator*(FMat<r, 3>, FVec3)
MatAdd(m, n) == <<VecAdd(m[1], n[1]), VecAdd(m[2], n[2]), VecAdd(m[3], n[3])>>
MatScale(m, s) == <<VecScale(m[1], s), VecScale(m[2], s), VecScale(m[3], s)>>
MatVec(m, v) == <<Dot(m[1], v), Dot(m[2], v), Dot(m[3], v)>>

ZeroVec == <<0, 0, 0>>
ZeroMat == <<ZeroVec, ZeroVec, ZeroVec>>

\* N without the identity
NOfProjector(direction) ==
  LET dx == direction[1]
      dy == direction[2]
      dz == direction[3]
  IN << <<dx * dx, dx * dy, dx * dz>>,
        <<dy * dx, dy * dy, dy * dz>>,
        <<dz * dx, dz * dy, dz * dz>> >>

\* the local N of multiRayIntersect, d * d^T - 1, in units of 1 / DirUnit^2
NOf(direction) ==
  LET dx == direction[1]
      dy == direction[2]
      dz == direction[3]
      one == DirUnit * DirUnit
  IN << <<dx * dx - one, dx * dy, dx * dz>>,
        <<dy * dx, dy * dy - one, dy * dz>>,
        <<dz * dx, dz * dy, dz * dz - one>> >>

\* Ink::inverse_3x3: the nine entries before the factor inv_det, and the
\* determinant inv_det is the inverse of (m[r][c] of the source is
\* m[r + 1][c + 1])
inverse_3x3(m) ==
  LET inv0 == m[2][2] * m[3][3] - m[3][2] * m[2][3]
      inv1 == m[2][3] * m[3][1] - m[2][1] * m[3][3]
      inv2 == m[2][1] * m[3][2] - m[3][1] * m[2][2]
  IN [det |-> m[1][1] * inv0 + m[1][2] * inv1 + m[1][3] * inv2,
      adj |-> << <<inv0,
                   m[1][3] * m[3][2] - m[1][2] * m[3][3],
                   m[1][2] * m[2][3] - m[1][3] * m[2][2]>>,
                 <<inv1,
                   m[1][1] * m[3][3] - m[1][3] * m[3][1],
                   m[2][1] * m[1][3] - m[1][1] * m[2][3]>>,
                 <<inv2,
                   m[3][1] * m[1][2] - m[1][1] * m[3][2],
                   m[1][1] * m[2][2] - m[2][1] * m[1][2]>> >>]

\* Ink::inverse_3x3(A) * b as a fraction; den is 0 where the source divides
\* by 0.  (A value is bound in a one-element set where it is used more than
\* once, so that it is computed once.)
Solve(A, b) ==
  CHOOSE x \in {[num |-> MatVec(inv.adj, b), den |-> inv.det] : inv \in {inverse_3x3(A)}} : TRUE

\* the loop of the unweighted overload up to ray i: [A, b]
RECURSIVE SumRays(_, _)
SumRays(rs, i) ==
  IF i = 0 THEN [A |-> ZeroMat, b |-> ZeroVec]
  ELSE LET acc == SumRays(rs, i - 1)
           N == NOf(rs[i].direction)
       IN [A |-> MatAdd(acc.A, N), b |-> VecAdd(acc.b, MatVec(N, rs[i].origin))]

\* MathUtils::multiRayIntersect(rays, size)
multiRayIntersectRays(rs) ==
  CHOOSE x \in {Solve(acc.A, acc.b) : acc \in {SumRays(rs, Len(rs))}} : TRUE

\* the loop of the weighted overload with the weight left out of A
RECURSIVE SumRaysConfsOnB(_, _, _)
SumRaysConfsOnB(rs, cs, i) ==
  IF i = 0 THEN [A |-> ZeroMat, b |-> ZeroVec]
  ELSE LET acc == SumRaysConfsOnB(rs, cs, i - 1)
           N == NOf(rs[i].direction)
       IN [A |-> MatAdd(acc.A, N),
           b |-> VecAdd(acc.b, VecScale(MatVec(N, rs[i].origin), cs[i]))]

\* the loop of the weighted overload up to ray i: [A, b]
RECURSIVE SumRaysConfs(_, _, _)
SumRaysConfs(rs, cs, i) ==
  IF i = 0 THEN [A |-> ZeroMat, b |-> ZeroVec]
  ELSE LET acc == SumRaysConfs(rs, cs, i - 1)
           N == NOf(rs[i].direction)
       IN [A |-> MatAdd(acc.A, MatScale(N, cs[i])),
           b |-> VecAdd(acc.b, VecScale(MatVec(N, rs[i].origin), cs[i]))]

\* MathUtils::multiRayIntersect(rays, confs, size)
multiRayIntersectConfs(rs, cs) ==
  CHOOSE x \in {Solve(acc.A, acc.b) : acc \in {SumRaysConfs(rs, cs, Len(rs))}} : TRUE

\* the points, the directions and the weights of the calls: the weights
\* 0.5 and 2 of the test of Main.cxx, in halves
Points == {<<2, 0, 0>>, <<1, 2, 3>>}
Directions == {<<0, DirUnit, 0>>, <<0, 0, DirUnit>>, <<3, 4, 0>>}
ConfValues == {1, 4}

\* Ink::Ray(origin, direction)
Ray(origin, direction) == [origin |-> origin, direction |-> direction]

\* the rays through the point X: the origin at X or one length back
RaysThrough(X) ==
  {Ray(VecSub(X, VecScale(d, k)), d) : d \in Directions, k \in {0, 1}}

\* the two rays of the test of Main.cxx, lines 187-190
MainRays == <<Ray(<<0, 0, 0>>, <<0, DirUnit, 0>>), Ray(<<2, 0, 0>>, <<0, 0, DirUnit>>)>>

\* the arguments of a call: 2 to MaxRays rays through one point, or the two
\* skew rays of Main.cxx, with any weights
RayInit ==
  /\ testRays \in {MainRays} \cup
       UNION {[1 .. n -> RaysThrough(X)] : <<n, X>> \in (2 .. MaxRays) \X Points}
  /\ testConfs \in [1 .. Len(testRays) -> ConfValues]
  /\ intersection = NoPoint
  /\ distance = NoDistance
  /\ viewsSize = viewNum
  /\ joints = noFrames
  /\ PAFs = [v \in Views |-> noFrames]
  /\ epipolars = noFrames
  /\ maxBoneLengths = noFrames
  /\ setCalls = {}
  /\ viewOrderI = 1
  /\ jointOrderI = 1
  /\ viewOrder = <<>>
  /\ jointOrder = <<>>
  /\ cluster = NewCluster
  /\ historyScores = [i \in 0 .. typeNum - 1 |-> 0]
  /\ preservedClusters = <<>>
  /\ count = 0
  /\ stack = <<>>
  /\ phase = "search"
  /\ VJCPersons = noFrames
  /\ VJPChoices = noFrames
  /\ multiPersonPose = <<>>
  /\ clusterI = 0
  /\ accepted = {}

frame == <<joints, PAFs, epipolars, maxBoneLengths, setCalls, viewsSize>>

\* a call of the unweighted overload
Intersect ==
  /\ intersection = NoPoint
  /\ \E p \in {multiRayIntersectRays(testRays)} :
       intersection' = [overload |-> "rays", num |-> p.num, den |-> p.den]
  /\ UNCHANGED <<frame, testRays, testConfs, distance, search, resolver>>

\* a call of the weighted overload
IntersectConfs ==
  /\ intersection = NoPoint
  /\ \E p \in {multiRayIntersectConfs(testRays, testConfs)} :
       intersection' = [overload |-> "confs", num |-> p.num, den |-> p.den]
  /\ UNCHANGED <<frame, testRays, testConfs, distance, search, resolver>>

RayNext == Intersect \/ IntersectConfs

RaySpec == RayInit /\ [][RayNext]_vars

(* -------------------- MathUtils::computeRayDistance ------------------- *)

\* MathUtils::computeRayDistance on rays in space.  The float returned is
\* not negative and is kept as its square, the exact fraction num / den:
\* magnitude() and normalize() take the root of a sum of squares.  den is 0
\* where normalize() divides 0 by 0 and the float returned is a NaN.
\* fabsf(dot) < 0.0001f on unit directions is |dot| * 10000 < DirUnit^2 here.
computeRayDistanceRays(ray1, ray2) ==
  LET diff == VecSub(ray1.origin, ray2.origin)
  IN IF Abs(Dot(ray1.direction, ray2.direction)) * 10000 < DirUnit * DirUnit
     THEN LET c == Cross(diff, ray1.direction)
          IN [branch |-> "cross", num |-> Dot(c, c), den |-> DirUnit * DirUnit]
     ELSE LET n == Cross(ray1.direction, ray2.direction)
          IN [branch |-> "skew", num |-> Dot(diff, n) * Dot(diff, n), den |-> Dot(n, n)]

\* the origins and the directions of the calls of computeRayDistance
DistanceOrigins == {<<0, 0, 0>>, <<2, 0, 0>>, <<2, 0, 5>>, <<1, 2, 3>>}
DistanceDirections == Directions \cup {<<0, 0 - DirUnit, 0>>}

\* the arguments of a call of computeRayDistance: any two rays
DistanceInit ==
  /\ testRays \in [1 .. 2 -> {Ray(o, d) : o \in DistanceOrigins, d \in DistanceDirections}]
  /\ testConfs = <<>>
  /\ intersection = NoPoint
  /\ distance = NoDistance
  /\ viewsSize = viewNum
  /\ joints = noFrames
  /\ PAFs = [v \in Views |-> noFrames]
  /\ epipolars = noFrames
  /\ maxBoneLengths = noFrames
  /\ setCalls = {}
  /\ viewOrderI = 1
  /\ jointOrderI = 1
  /\ viewOrder = <<>>
  /\ jointOrder = <<>>
  /\ cluster = NewCluster
  /\ historyScores = [i \in 0 .. typeNum - 1 |-> 0]
  /\ preservedClusters = <<>>
  /\ count = 0
  /\ stack = <<>>
  /\ phase = "search"
  /\ VJCPersons = noFrames
  /\ VJPChoices = noFrames
  /\ multiPersonPose = <<>>
  /\ clusterI = 0
  /\ accepted = {}

\* a call of computeRayDistance
ComputeRayDistance ==
  /\ distance = NoDistance
  /\ distance' = computeRayDistanceRays(testRays[1], testRays[2])
  /\ UNCHANGED <<frame, testRays, testConfs, intersection, search, resolver>>

DistanceSpec == DistanceInit /\ [][ComputeRayDistance]_vars

(* ----------------- computeWorldPos and the confidences ---------------- *)

\* the frames of the calls of computeWorldPos: cameras 0, 1 and 2 see at
\* most one root candidate each
ConfLayouts ==
  {l \in [1 .. Len(SlotSeq) -> {<<>>} \cup {<<o>> : o \in Origins}] :
     \A i \in 1 .. Len(SlotSeq) :
       l[i] # <<>> => SlotSeq[i][1] \in CandViews /\ SlotSeq[i][2] = rootJointType}

\* Joint::conf of every candidate of a frame
WithConf(js, conf) ==
  [slot \in DOMAIN js |->
     [j \in 1 .. Len(js[slot]) |->
        [ID |-> js[slot][j].ID, ray |-> js[slot][j].ray, conf |-> conf[slot]]]]

\* the cluster that holds the candidate of every camera that has one
AllChosen(js) ==
  [NewCluster EXCEPT !.choices = [slot \in DOMAIN js |-> 0]]

\* the search is at the last camera of the root joint type, about to call
\* computeWorldPos
WorldPosInit ==
  /\ \E layout \in ConfLayouts :
       \E conf \in [DOMAIN LoadJoints(layout) -> ConfValues] :
         /\ joints = WithConf(LoadJoints(layout), conf)
         /\ cluster = AllChosen(joints)
  /\ PAFs = [v \in Views |-> noFrames]
  /\ epipolars = computeEpipolar(joints, MAX_EPIPOLAR_DISTANCE)
  /\ maxBoneLengths = noFrames
  /\ setCalls = {}
  /\ testRays = <<>>
  /\ testConfs = <<>>
  /\ intersection = NoPoint
  /\ distance = NoDistance
  /\ viewsSize = viewNum
  /\ viewOrderI = 1
  /\ jointOrderI = 1
  /\ viewOrder = PassViewOrders[1]
  /\ jointOrder = PassJointOrders[1]
  /\ historyScores = [i \in 0 .. typeNum - 1 |-> 0]
  /\ preservedClusters = <<>>
  /\ count = 0
  /\ stack = <<>>
  /\ phase = "search"
  /\ VJCPersons = noFrames
  /\ VJPChoices = noFrames
  /\ multiPersonPose = <<>>
  /\ clusterI = 0
  /\ accepted = {}

\* the call of line 229 or 268 that returns true
ComputeWorldPos ==
  /\ rootJointType \notin DOMAIN cluster.worldPos
  /\ LET wp == computeWorldPos(cluster, rootJointType)
     IN wp.ok /\ cluster' = wp.cluster
  /\ UNCHANGED <<inputs, count, viewOrderI, jointOrderI, viewOrder, jointOrder,
                 historyScores, preservedClusters, stack, phase, resolver>>

WorldPosSpec == WorldPosInit /\ [][ComputeWorldPos]_vars

(* ----------------------- a pass run a second time --------------------- *)

\* the passes of the runs that repeat the passes: every pass is run again
\* after the others
RepeatViewOrders == PassViewOrders \o PassViewOrders

\* lines 125-130 for the passes of RepeatViewOrders
StartRepeatPass ==
  /\ phase = "search" /\ stack = <<>>
  /\ viewOrderI <= Len(RepeatViewOrders)
  /\ viewOrder' = RepeatViewOrders[viewOrderI]
  /\ jointOrder' = PassJointOrders[jointOrderI]
  /\ cluster' = [cluster EXCEPT !.mainView = RepeatViewOrders[viewOrderI][1]]
  /\ stack' = <<[Frame(0, 0) EXCEPT !.entryChoices = cluster.choices,
                                    !.entryScore = cluster.score]>>
  /\ UNCHANGED <<inputs, count, viewOrderI, jointOrderI, historyScores, preservedClusters, phase, resolver>>

\* compute(multiview, cluster, 0, 0) returned to the driving loops
EndRepeatPass ==
  /\ Running /\ Top.pc = "ret" /\ Len(stack) = 1
  /\ stack' = <<>>
  /\ IF jointOrderI < Len(PassJointOrders)
     THEN jointOrderI' = jointOrderI + 1 /\ viewOrderI' = viewOrderI
     ELSE jointOrderI' = 1 /\ viewOrderI' = viewOrderI + 1
  /\ UNCHANGED <<inputs, count, viewOrder, jointOrder, cluster, historyScores,
                 preservedClusters, phase, resolver>>

RepeatNext ==
  \/ StartRepeatPass \/ Preserve \/ RejectChoice \/ ShiftView \/ ShiftJoint \/ AfterShift
  \/ SkipLastView \/ SkipMidView \/ SkipMainView \/ NoSkip \/ AfterSkip \/ EndRepeatPass

\* the frames of these runs: those of fewer than MaxJoints candidates, and
\* the frames of one and of two people
RepeatInit ==
  /\ Init
  /\ \/ Cardinality(Candidates) < MaxJoints
     \/ joints \in {LoadJoints(layout) : layout \in OnePersonLayouts \cup TwoPersonLayouts}

\* the search of compute(multiview) with its passes run a second time
RepeatSpec == RepeatInit /\ [][RepeatNext]_vars

(* ------------------- the capacity of the preserved list --------------- *)

\* at most MaxChoices candidates per camera and joint type
MaxChoices == 4

\* QuickPose::maxClusterNum: preservedClusters.resize(maxClusterNum), line 102
maxClusterNum == 100000

\* the number of times compute(multiview, cluster, viewI, jointI) runs line
\* 165, clusterNum++ and ++count, on a frame in which every candidate passes
\* the gates 2, 3 and 4: then what a candidate's iteration of the loop of
\* line 188 does depends on the cameras and joint types that are assigned
\* (`assigned`, the pairs with a choice in the cluster) and not on the
\* candidate, so the iterations of one loop run line 165 equally often.
\* vo and jo are viewOrder and jointOrder.
RECURSIVE computeClusterNum(_, _, _, _, _)
computeClusterNum(vo, jo, viewI, jointI, assigned) ==
  IF jointI = Len(jo) THEN 1
  ELSE LET view == vo[viewI + 1]
           jointType == jo[jointI + 1]
           gate == jointI = 0 \/ <<view, Parent(jointType)>> \in assigned
           choiceNum == Len(JointsOf(joints, view, jointType))
           set == assigned \cup {<<view, jointType>>}
           rayNum == Cardinality({v \in Views : <<v, jointType>> \in assigned})
       IN (IF gate /\ choiceNum > 0
           THEN choiceNum * (IF viewI = viewNum - 1
                             THEN computeClusterNum(vo, jo, 0, jointI + 1, set)
                             ELSE computeClusterNum(vo, jo, viewI + 1, jointI, set))
           ELSE 0)
          + (IF viewI = viewNum - 1
             THEN computeClusterNum(vo, jo, 0, jointI + 1,
                                    IF rayNum < 2 THEN assigned \ {<<vo[1], jointType>>}
                                    ELSE assigned)
             ELSE IF viewI # 0
             THEN computeClusterNum(vo, jo, viewI + 1, jointI, assigned)
             ELSE IF ~(gate /\ choiceNum > 0)
             THEN computeClusterNum(vo, jo, 0, jointI + 1, assigned)
             ELSE 0)

\* a frame in which the first `views` cameras have n candidates of every
\* joint type of CandTypes, all rays through the point 0
CrowdJoints(views, n) ==
  [slot \in {s \in (0 .. views - 1) \X CandTypes : n > 0} |->
     [j \in 1 .. n |->
        [ID  |-> (SlotIndex(slot[1], slot[2]) - 1) * n + j - 1,
         ray |-> [origin |-> 0]]]]

\* computeEpipolar on such a frame: every distance is 0, every score 1
CrowdEpipolars(js) ==
  [k \in {Key(js[a][i].ID, js[b][j].ID) :
            <<a, b, i, j>> \in {q \in (DOMAIN js) \X (DOMAIN js) \X (1 .. MaxChoices) \X (1 .. MaxChoices) :
                                  /\ q[1][1] < q[2][1] /\ q[1][2] = q[2][2]
                                  /\ q[3] <= Len(js[q[1]]) /\ q[4] <= Len(js[q[2]])}} |->
     ScoreOne]

\* the frames of the capacity check: 2 or 3 cameras see up to MaxChoices
\* candidates of every joint type, every part affinity is EPS, every
\* epipolar score is 1 and no bone-length limit is set
CapacityInit ==
  /\ \E views \in {2, 3}, n \in 0 .. MaxChoices :
       /\ joints = CrowdJoints(views, n)
       /\ PAFs = [v \in Views |-> [k \in PAFKeys(joints, v) |-> EPS]]
       /\ epipolars = CrowdEpipolars(joints)
  /\ maxBoneLengths = noFrames
  /\ setCalls = {}
  /\ testRays = <<>>
  /\ testConfs = <<>>
  /\ intersection = NoPoint
  /\ distance = NoDistance
  /\ viewsSize = viewNum
  /\ viewOrderI = 1
  /\ jointOrderI = 1
  /\ viewOrder = <<>>
  /\ jointOrder = <<>>
  /\ cluster = NewCluster
  /\ historyScores = [i \in 0 .. typeNum - 1 |-> 0]
  /\ preservedClusters = <<>>
  /\ count = 0
  /\ stack = <<>>
  /\ phase = "search"
  /\ VJCPersons = noFrames
  /\ VJPChoices = noFrames
  /\ multiPersonPose = <<>>
  /\ clusterI = 0
  /\ accepted = {}

\* lines 125-132: one pass of the two driving loops, over all the camera
\* permutations and joint orders of the source; count stands for clusterNum
\* (lines 165-166 raise both, and both are 0 at the first call of compute).
\* No pass is run once a write of line 165 was outside the array.
CountPass ==
  /\ phase = "search"
  /\ viewOrderI <= Len(viewOrders)
  /\ count <= maxClusterNum
  /\ viewOrder' = viewOrders[viewOrderI]
  /\ jointOrder' = jointOrders[jointOrderI]
  /\ cluster' = [cluster EXCEPT !.mainView = viewOrders[viewOrderI][1]]
  /\ count' = count + computeClusterNum(viewOrders[viewOrderI], jointOrders[jointOrderI], 0, 0, {})
  /\ IF jointOrderI < Len(jointOrders)
     THEN jointOrderI' = jointOrderI + 1 /\ viewOrderI' = viewOrderI
     ELSE jointOrderI' = 1 /\ viewOrderI' = viewOrderI + 1
  /\ UNCHANGED <<frame, mathUtils, historyScores, preservedClusters, stack, phase, resolver>>

CapacitySpec == CapacityInit /\ [][CountPass]_vars

(* --------------------- postProcessing on many persons ----------------- *)

\* at most MaxPersons people stand in the frames of the resolver runs
MaxPersons == 11

\* a frame of n people seen by cameras 0 and 1 in the root joint type: the
\* rays of person i pass through the point 3 * i, too far from the rays of
\* the other people for the epipolar gate.  Camera 0 holds one more
\* candidate, with a ray through 1, and camera 2 one candidate, with a ray
\* through 2.
PersonsJoints(n) ==
  [slot \in {0, 1, 2} \X {rootJointType} |->
     IF slot[1] = 0
     THEN [j \in 1 .. n + 1 |-> [ID |-> j - 1, ray |-> [origin |-> IF j <= n THEN 3 * (j - 1) ELSE 1]]]
     ELSE IF slot[1] = 1
     THEN [j \in 1 .. n |-> [ID |-> n + j, ray |-> [origin |-> 3 * (j - 1)]]]
     ELSE <<[ID |-> 2 * n + 1, ray |-> [origin |-> 2]]>>]

\* computeEpipolar on such a frame
PersonsEpipolars(js) ==
  LET pairs == {q \in (DOMAIN js) \X (DOMAIN js) \X (1 .. MaxPersons + 1) \X (1 .. MaxPersons + 1) :
                  /\ q[1][1] < q[2][1] /\ q[1][2] = q[2][2]
                  /\ q[3] <= Len(js[q[1]]) /\ q[4] <= Len(js[q[2]])}
  IN [k \in {Key(js[q[1]][q[3]].ID, js[q[2]][q[4]].ID) : q \in pairs} |->
        LET q == CHOOSE p \in pairs : Key(js[p[1]][p[3]].ID, js[p[2]][p[4]].ID) = k
        IN ScoreOne - (computeRayDistance(js[q[1]][q[3]].ray, js[q[2]][q[4]].ray) * ScoreOne)
                        \div MAX_EPIPOLAR_DISTANCE]

\* the cluster a pass preserves for two candidates of the root joint type:
\* candidate choiceA of camera viewA, the main camera, and candidate choiceB
\* of camera viewB
PairCluster(js, viewA, choiceA, viewB, choiceB) ==
  LET rayA == js[<<viewA, rootJointType>>][choiceA + 1].ray
      rayB == js[<<viewB, rootJointType>>][choiceB + 1].ray
  IN [mainView |-> viewA,
      score    |-> ScoreOne - (computeRayDistance(rayA, rayB) * ScoreOne) \div MAX_EPIPOLAR_DISTANCE,
      choices  |-> [e \in {<<viewA, rootJointType>>, <<viewB, rootJointType>>} |->
                      IF e[1] = viewA THEN choiceA ELSE choiceB],
      worldPos |-> [t \in {rootJointType} |-> multiRayIntersect(<<rayA, rayB>>)]]

\* the sorted lists of preserved clusters of the resolver runs: one cluster
\* per person (cameras 0 and 1), then at most one cluster of a lower score
\* that shares the candidate of person 0 in camera 1 (with the same
\* candidate of camera 0 again, with the candidate of camera 2, or with the
\* extra candidate of camera 0), then a cluster without any candidate
PersonLists(js, n) ==
  LET persons == [i \in 1 .. n |-> PairCluster(js, 0, i - 1, 1, i - 1)]
  IN {persons \o extra \o <<NewCluster>> :
        extra \in {<<>>} \cup
          (IF n = 0 THEN {}
           ELSE {<<PairCluster(js, 1, 0, 0, 0)>>,
                 <<PairCluster(js, 1, 0, 2, 0)>>,
                 <<PairCluster(js, 1, 0, 0, n)>>})}

\* postProcessing after line 331, for those frames and lists
ResolverInit ==
  /\ \E n \in 0 .. MaxPersons :
       /\ joints = PersonsJoints(n)
       /\ preservedClusters \in PersonLists(joints, n)
  /\ PAFs = [v \in Views |-> noFrames]
  /\ epipolars = PersonsEpipolars(joints)
  /\ maxBoneLengths = noFrames
  /\ setCalls = {}
  /\ testRays = <<>>
  /\ testConfs = <<>>
  /\ intersection = NoPoint
  /\ distance = NoDistance
  /\ viewsSize = viewNum
  /\ viewOrderI = Len(PassViewOrders) + 1
  /\ jointOrderI = 1
  /\ viewOrder = PassViewOrders[Len(PassViewOrders)]
  /\ jointOrder = PassJointOrders[Len(PassJointOrders)]
  /\ cluster = [NewCluster EXCEPT !.mainView = viewOrder[1]]
  /\ historyScores = [i \in 0 .. typeNum - 1 |-> 0]
  /\ count = Len(preservedClusters)
  /\ stack = <<>>
  /\ phase = "resolve"
  /\ VJCPersons = noFrames
  /\ VJPChoices = noFrames
  /\ multiPersonPose = <<>>
  /\ clusterI = 0
  /\ accepted = {}

\* every person index the tables were written with is within
\* VJPChoices[view][type], resized to maxPersonNum at line 324
InTables == \A k \in DOMAIN VJPChoices : k[3] < maxPersonNum

\* the loop of line 333; nothing is modelled after a write outside
\* VJPChoices[view][type]
ResolverNext ==
  \/ InTables /\ RejectCluster
  \/ InTables /\ RejectContradiction
  \/ InTables /\ AcceptNewPerson
  \/ InTables /\ AcceptMerge
  \/ InTables /\ Return

ResolverSpec == ResolverInit /\ [][ResolverNext]_vars

(* ---------------------- the cameras of the frame ---------------------- *)

\* the frames of the camera runs have 2 to MaxViews cameras
MaxViews == 6

\* compute(multiview) on a frame of any number of cameras, before the
\* driving loops
CameraInit ==
  /\ viewsSize \in 2 .. MaxViews
  /\ joints = noFrames
  /\ PAFs = [v \in Views |-> noFrames]
  /\ epipolars = noFrames
  /\ maxBoneLengths = noFrames
  /\ setCalls = {}
  /\ testRays = <<>>
  /\ testConfs = <<>>
  /\ intersection = NoPoint
  /\ distance = NoDistance
  /\ viewOrderI = 1
  /\ jointOrderI = 1
  /\ viewOrder = <<>>
  /\ jointOrder = <<>>
  /\ cluster = NewCluster
  /\ historyScores = [i \in 0 .. typeNum - 1 |-> 0]
  /\ preservedClusters = <<>>
  /\ count = 0
  /\ stack = <<>>
  /\ phase = "search"
  /\ VJCPersons = noFrames
  /\ VJPChoices = noFrames
  /\ multiPersonPose = <<>>
  /\ clusterI = 0
  /\ accepted = {}

\* line 172, int view = viewOrder[viewI], reads an element viewOrder has and
\* gets an index multiview.views has
ValidView(viewI) ==
  viewI + 1 \in DOMAIN viewOrder /\ viewOrder[viewI + 1] \in 0 .. viewsSize - 1

\* lines 125-130: the next pass starts, over all the camera permutations and
\* joint orders of the source
StartViewPass ==
  /\ phase = "search" /\ stack = <<>>
  /\ viewOrderI <= Len(viewOrders)
  /\ viewOrder' = viewOrders[viewOrderI]
  /\ jointOrder' = jointOrders[jointOrderI]
  /\ cluster' = [cluster EXCEPT !.mainView = viewOrders[viewOrderI][1]]
  /\ stack' = <<Frame(0, 0)>>
  /\ UNCHANGED <<frame, mathUtils, viewOrderI, jointOrderI, historyScores,
                 preservedClusters, count, phase, resolver>>

\* lines 250 and 298: compute(viewI + 1, jointI), the recursion moves on to
\* the next camera of the permutation until viewI is viewNum - 1; nothing is
\* modelled after a read outside viewOrder or multiview.views
NextView ==
  /\ phase = "search" /\ stack # <<>>
  /\ ValidView(Top.viewI)
  /\ Top.viewI # viewsSize - 1
  /\ stack' = <<Frame(Top.viewI + 1, 0)>>
  /\ UNCHANGED <<frame, mathUtils, viewOrderI, jointOrderI, viewOrder, jointOrder, cluster,
                 historyScores, preservedClusters, count, phase, resolver>>

\* the pass returns to the driving loops
EndViewPass ==
  /\ phase = "search" /\ stack # <<>>
  /\ ValidView(Top.viewI)
  /\ Top.viewI = viewsSize - 1
  /\ stack' = <<>>
  /\ IF jointOrderI < Len(jointOrders)
     THEN jointOrderI' = jointOrderI + 1 /\ viewOrderI' = viewOrderI
     ELSE jointOrderI' = 1 /\ viewOrderI' = viewOrderI + 1
  /\ UNCHANGED <<frame, mathUtils, viewOrder, jointOrder, cluster, historyScores,
                 preservedClusters, count, phase, resolver>>

CameraNext == StartViewPass \/ NextView \/ EndViewPass

CameraSpec == CameraInit /\ [][CameraNext]_vars

(* ----------------------------- properties ----------------------------- *)

RECURSIVE SumFn(_)
SumFn(f) ==
  IF DOMAIN f = {} THEN 0
  ELSE LET x == CHOOSE y \in DOMAIN f : TRUE
       IN f[x] + SumFn([y \in DOMAIN f \ {x} |-> f[y]])

Preserved == 1 .. Len(preservedClusters)

\* the camera permutation of the pass a preserved cluster was built in
OrderOf(cl) ==
  PassViewOrders[CHOOSE i \in 1 .. Len(PassViewOrders) : PassViewOrders[i][1] = cl.mainView]

\* the joint types a cluster holds a candidate of, in any camera and in
\* its main camera
AssignedTypes(cl) == {e[2] : e \in DOMAIN cl.choices}
MainTypes(cl) == {type \in AssignedTypes(cl) : getJoint(cl, cl.mainView, type) # NO_CHOICE}

\* the part-affinity term of the candidate of (view, type) with the
\* candidate of its parent in the same camera
PAFTerm(cl, view, type) ==
  IF type # rootJointType /\ getJoint(cl, view, Parent(type)) # NO_CHOICE
  THEN getPAF(view, JointOf(view, Parent(type), getJoint(cl, view, Parent(type))),
              JointOf(view, type, getJoint(cl, view, type)))
  ELSE 0

\* the epipolar term of the candidates of one joint type in two cameras
EpiTerm(cl, viewA, viewB, type) ==
  getEpipolar(JointOf(viewA, type, getJoint(cl, viewA, type)),
              JointOf(viewB, type, getJoint(cl, viewB, type)))

\* the replayed score of a cluster over the joint types `types`
Replay(cl, types) ==
  SumFn([e \in {d \in DOMAIN cl.choices : d[2] \in types} |-> PAFTerm(cl, e[1], e[2])])
  + SumFn([p \in {q \in (DOMAIN cl.choices) \X (DOMAIN cl.choices) :
                    q[1][2] = q[2][2] /\ q[1][2] \in types /\ q[1][1] < q[2][1]} |->
             EpiTerm(cl, p[1][1], p[2][1], p[1][2])])

\* the terminal case has just copied the cluster into the preserved list
JustPreserved == Running /\ Top.pc = "ret" /\ Top.jointI = Len(jointOrder)
LastPreserved == preservedClusters[Len(preservedClusters)]

\* C1 as stated: whenever the search copies a cluster into the preserved
\* list, the replay of every candidate the copy stores (every camera,
\* every joint type) gives the copy's stored score
C1_ScoreIntegrityAllAssigned ==
  JustPreserved =>
    Replay(LastPreserved, AssignedTypes(LastPreserved)) = LastPreserved.score

\* C1 amended: whenever the search copies a cluster into the preserved
\* list, the part-affinity and epipolar terms of the candidates of the
\* joint types that have a main-camera candidate sum to the copy's stored
\* score
C1_ScoreIntegrity ==
  JustPreserved =>
    Replay(LastPreserved, MainTypes(LastPreserved)) = LastPreserved.score

\* a preserved cluster with a positive score that keeps candidates of a
\* joint type whose main-camera candidate was undone, their terms being
\* no part of the score
C1_Witness ==
  \E i \in Preserved :
    /\ AssignedTypes(preservedClusters[i]) # MainTypes(preservedClusters[i])
    /\ preservedClusters[i].score > 0
    /\ Replay(preservedClusters[i], AssignedTypes(preservedClusters[i])) > preservedClusters[i].score

\* C2: a call of compute(viewI, jointI) that has returned left the
\* cluster's assignment and score as they were at its entry, and between
\* two passes the cluster holds no candidate and has score 0
C2_ExactRollback ==
  /\ (Running /\ Top.pc = "ret") =>
       (cluster.choices = Top.entryChoices /\ cluster.score = Top.entryScore)
  /\ (phase = "search" /\ stack = <<>>) =>
       (cluster.choices = noFrames /\ cluster.score = 0)

\* the outermost call of a pass has returned after it preserved a cluster
\* with a scored non-root joint type
C2_Witness ==
  /\ Running /\ Len(stack) = 1 /\ Top.pc = "ret"
  /\ \E i \in Preserved :
       /\ preservedClusters[i].mainView = viewOrder[1]
       /\ MainTypes(preservedClusters[i]) \ {rootJointType} # {}
       /\ preservedClusters[i].score > 0

Resolved == phase \in {"resolve", "done"}

\* the clusters the resolver has processed
Processed == 1 .. clusterI

\* C3: once a (camera, joint type, candidate) triple is committed to a
\* person it stays committed to that person, and no two persons record
\* the same candidate at the same (camera, joint type)
C3_NoTripleTwoPersons ==
  [][/\ phase = "resolve" =>
          \A t \in DOMAIN VJCPersons :
            t \in DOMAIN VJCPersons' /\ VJCPersons'[t] = VJCPersons[t]
     /\ \A t1 \in DOMAIN VJPChoices' : \A t2 \in DOMAIN VJPChoices' :
          (t1[1] = t2[1] /\ t1[2] = t2[2] /\ t1[3] # t2[3]) =>
            VJPChoices'[t1] # VJPChoices'[t2]]_vars

\* the resolver ended with two persons after it processed a cluster that
\* claims triples of both
C3_Witness ==
  /\ phase = "done"
  /\ Len(multiPersonPose) >= 2
  /\ \E i \in Processed \ accepted :
       Cardinality({VJCPerson(t[1], t[2], t[3]) : t \in Triples(preservedClusters[i])} \ {-1}) >= 2

\* the position the rays of a cluster's candidates of a joint type
\* triangulate to
RaysOf(cl, type) == CollectRays(cl, OrderOf(cl), type, 0)

\* C4: for every Pose and every joint type whose has-joint flag is true,
\* the cluster that wrote the position has candidates of the joint type in
\* at least 2 cameras and the position is the triangulation of their rays
C4_TwoRays ==
  Resolved =>
    \A k \in 1 .. Len(multiPersonPose) :
      \A type \in multiPersonPose[k].hasJoint :
        LET cl == preservedClusters[multiPersonPose[k].writer[type]]
        IN /\ Len(RaysOf(cl, type)) >= 2
           /\ multiPersonPose[k].jointPos[type] = multiRayIntersect(RaysOf(cl, type))

\* a returned Pose with two joint types present, one of them away from
\* the origin of the line
C4_Witness ==
  /\ phase = "done"
  /\ \E k \in 1 .. Len(multiPersonPose) :
       /\ Cardinality(multiPersonPose[k].hasJoint) >= 2
       /\ \E type \in multiPersonPose[k].hasJoint : multiPersonPose[k].jointPos[type].num > 0

\* two clusters claim a common triple and claim different candidates at
\* some (camera, joint type)
Clash(a, b) ==
  /\ Triples(a) \cap Triples(b) # {}
  /\ \E e \in Claims(a) \cap Claims(b) : a.choices[e] # b.choices[e]

\* C5 as stated: of two processed clusters that clash, the lower-scored
\* one is not accepted
C5_OnlyHigherScoredAccepted ==
  Resolved =>
    \A i \in Processed : \A j \in Processed :
      (/\ Clash(preservedClusters[i], preservedClusters[j])
       /\ preservedClusters[i].score > preservedClusters[j].score) => j \notin accepted

\* C5 amended: the resolver processes the clusters in descending order of
\* score, and of two clusters that clash at most one is accepted: the one
\* processed first, if it is accepted, shuts the other out
C5_ResolutionOrder ==
  Resolved =>
    /\ \A i \in Preserved : \A j \in Preserved :
         i < j => preservedClusters[i].score >= preservedClusters[j].score
    /\ \A i \in Processed \cap accepted : \A j \in Processed \cap accepted :
         i # j => ~Clash(preservedClusters[i], preservedClusters[j])

\* the resolver ended having accepted the higher-scored of two clashing
\* clusters and rejected the lower-scored
C5_Witness ==
  /\ phase = "done"
  /\ \E i \in accepted : \E j \in Processed \ accepted :
       /\ Clash(preservedClusters[i], preservedClusters[j])
       /\ preservedClusters[i].score > preservedClusters[j].score

\* C6: a step of the resolver that processes a cluster without accepting
\* it leaves both tables and the list of Poses as they were
C6_RejectedChangesNothing ==
  [][(phase = "resolve" /\ clusterI' = clusterI + 1 /\ accepted' = accepted) =>
       (/\ VJCPersons' = VJCPersons
        /\ VJPChoices' = VJPChoices
        /\ multiPersonPose' = multiPersonPose)]_vars

\* the resolver ended with a person, and with a rejected cluster one of
\* whose claimed triples is owned by nobody
C6_Witness ==
  /\ phase = "done"
  /\ accepted # {}
  /\ \E i \in Processed \ accepted :
       \E t \in Triples(preservedClusters[i]) : VJCPerson(t[1], t[2], t[3]) = -1

\* the persons that own a claimed triple of a cluster
OwnersOf(cl) == {VJCPerson(t[1], t[2], t[3]) : t \in Triples(cl)} \ {-1}

\* C7: a cluster is accepted only if it has a main-camera candidate, its
\* claimed triples belong to at most one person and none of its claimed
\* candidates differs from the one recorded for that person; it starts one
\* new person when no triple has an owner, and is otherwise committed to
\* the owning person with no Pose created
C7_AcceptanceRule ==
  [][(phase = "resolve" /\ accepted' # accepted) =>
       LET cl == CurCluster
       IN /\ MainTypes(cl) # {}
          /\ Cardinality(OwnersOf(cl)) <= 1
          /\ \A p \in OwnersOf(cl) : \A e \in Claims(cl) :
               VJPChoice(e[1], e[2], p) \in {NO_CHOICE, cl.choices[e]}
          /\ IF OwnersOf(cl) = {}
             THEN /\ Len(multiPersonPose') = Len(multiPersonPose) + 1
                  /\ \A k \in 1 .. Len(multiPersonPose) :
                       multiPersonPose'[k] = multiPersonPose[k]
                  /\ \A t \in Triples(cl) : VJCPersons'[t] = Len(multiPersonPose)
             ELSE /\ Len(multiPersonPose') = Len(multiPersonPose)
                  /\ \A t \in Triples(cl) : VJCPersons'[t] \in OwnersOf(cl)]_vars

\* the resolver ended having accepted more clusters than it made persons:
\* a cluster was merged
C7_Witness ==
  /\ phase = "done"
  /\ Len(multiPersonPose) >= 1
  /\ Cardinality(accepted) > Len(multiPersonPose)

\* C8: whenever the search copies a cluster into the preserved list, every
\* non-root joint type of the copy with a main-camera candidate and its
\* parent are each triangulated from 2 or more rays of the copy, and the
\* two positions are no farther apart than the bone-length limit of the
\* pair
C8_BoneLength ==
  JustPreserved =>
    \A type \in MainTypes(LastPreserved) \ {rootJointType} :
      LET cl == LastPreserved
      IN /\ Len(RaysOf(cl, type)) >= 2
         /\ Len(RaysOf(cl, Parent(type))) >= 2
         /\ ~FartherThan(multiRayIntersect(RaysOf(cl, Parent(type))),
                         multiRayIntersect(RaysOf(cl, type)),
                         getMaxBoneLength(type, Parent(type)))

\* under a calibrated bone table, a preserved cluster keeps a non-root
\* joint type at a positive distance from its parent
C8_Witness ==
  /\ maxBoneLengths # noFrames
  /\ \E i \in Preserved :
       \E type \in MainTypes(preservedClusters[i]) \ {rootJointType} :
         FartherThan(multiRayIntersect(RaysOf(preservedClusters[i], Parent(type))),
                     multiRayIntersect(RaysOf(preservedClusters[i], type)), 0)

\* the (camera, joint type) pairs whose candidate a step sets or replaces
Assigns(e) ==
  /\ e \in DOMAIN cluster'.choices
  /\ e \notin DOMAIN cluster.choices \/ cluster.choices[e] # cluster'.choices[e]

\* C9: a step sets a candidate of a non-root joint type in a camera only
\* if the parent joint type has a candidate in that camera; at a (camera,
\* joint type) whose parent has none, the step taken is the skip and it
\* sets no candidate there
C9_ParentGate ==
  [][/\ \A e \in DOMAIN cluster'.choices :
          (Assigns(e) /\ e[2] # rootJointType) =>
            getJoint(cluster, e[1], Parent(e[2])) # NO_CHOICE
     /\ (InBody /\ IsNotRoot /\ getJoint(cluster, CurView, ParentType) = NO_CHOICE) =>
          (/\ getJoint(cluster', CurView, CurType) = NO_CHOICE
           /\ Len(stack') = Len(stack) + 1
           /\ stack'[Len(stack)].pc = "inSkip")]_vars

\* the search stands at a non-root joint type in a camera that has
\* candidates of it, and the parent has no candidate in that camera
C9_Witness ==
  /\ InBody /\ IsNotRoot
  /\ getJoint(cluster, CurView, ParentType) = NO_CHOICE
  /\ ChoiceNum > 0
  /\ JointsOf(joints, CurView, ParentType) # <<>>

\* C10: a step sets a candidate of a non-root joint type in a camera only
\* if its stored part affinity with the parent's candidate in that camera
\* is greater than 0
C10_PAFGate ==
  [][\A e \in DOMAIN cluster'.choices :
       (Assigns(e) /\ e[2] # rootJointType) =>
         /\ getJoint(cluster, e[1], Parent(e[2])) # NO_CHOICE
         /\ getPAF(e[1], JointOf(e[1], Parent(e[2]), getJoint(cluster, e[1], Parent(e[2]))),
                   JointOf(e[1], e[2], cluster'.choices[e])) > 0]_vars

\* the cluster holds a candidate of a non-root joint type in a camera in
\* which another candidate of that joint type has part affinity 0 with the
\* parent's candidate
C10_Witness ==
  /\ Running
  /\ \E e \in DOMAIN cluster.choices :
       /\ e[2] # rootJointType
       /\ getJoint(cluster, e[1], Parent(e[2])) # NO_CHOICE
       /\ \E c \in 1 .. Len(JointsOf(joints, e[1], e[2])) :
            getPAF(e[1], JointOf(e[1], Parent(e[2]), getJoint(cluster, e[1], Parent(e[2]))),
                   JointsOf(joints, e[1], e[2])[c]) = 0

\* C11: in every state of the search, every two candidates the cluster
\* holds for one joint type in two cameras have an epipolar score greater
\* than 0
C11_EpipolarGate ==
  phase = "search" =>
    \A e1 \in DOMAIN cluster.choices : \A e2 \in DOMAIN cluster.choices :
      (e1[2] = e2[2] /\ e1[1] # e2[1]) => EpiTerm(cluster, e1[1], e2[1], e1[2]) > 0

\* the cluster holds candidates of one joint type in two cameras, and a
\* further candidate of the second camera has epipolar score 0 with the
\* candidate of the first
C11_Witness ==
  /\ Running
  /\ \E e1 \in DOMAIN cluster.choices : \E e2 \in DOMAIN cluster.choices :
       /\ e1[2] = e2[2] /\ e1[1] # e2[1]
       /\ \E c \in 1 .. Len(JointsOf(joints, e2[1], e2[2])) :
            getEpipolar(JointOf(e1[1], e1[2], cluster.choices[e1]),
                        JointsOf(joints, e2[1], e2[2])[c]) = 0

\* some candidate of the current (camera, joint type) passes the gates
AnyPasses ==
  ParentGate /\ \E c \in 0 .. ChoiceNum - 1 : PAFGate(c) /\ EpipolarGate(c)

\* the step goes into the recursive call of the skip strategy
SkipStep(viewI, jointI) ==
  /\ Len(stack') = Len(stack) + 1
  /\ stack'[Len(stack)].pc = "inSkip"
  /\ stack'[Len(stack')].viewI = viewI
  /\ stack'[Len(stack')].jointI = jointI
  /\ stack'[Len(stack')].pc = "loop"

\* C12: when the candidate loop of the main camera is over, the search
\* goes on to the next joint type with the main camera unassigned if and
\* only if no candidate of the main camera passed the gates; otherwise the
\* call returns
C12_SkipMainView ==
  [][(LoopDone /\ Top.viewI = 0) =>
       /\ SkipStep(0, Top.jointI + 1) <=> ~AnyPasses
       /\ ~AnyPasses => getJoint(cluster', CurView, CurType) = NO_CHOICE
       /\ AnyPasses => (Len(stack') = Len(stack) /\ stack'[Len(stack)].pc = "ret")]_vars

\* the candidate loop of the main camera is over for a non-root joint
\* type, two candidates were there and one of them passed the gates
C12_Witness ==
  /\ LoopDone /\ Top.viewI = 0 /\ IsNotRoot
  /\ ChoiceNum >= 2
  /\ AnyPasses
  /\ \E c \in 0 .. ChoiceNum - 1 : ~PAFGate(c)

\* C13: at a camera other than the main one, every candidate that passes
\* the gates is explored, and when the candidate loop is over the branch
\* that leaves the camera unassigned is explored: at the last camera it
\* goes to the next joint type, at an intermediate camera to the next
\* camera
C13_SkipOtherViews ==
  [][/\ (LoopDone /\ Top.viewI # 0) =>
          /\ getJoint(cluster', CurView, CurType) = NO_CHOICE
          /\ IF Top.viewI = viewNum - 1
             THEN SkipStep(0, Top.jointI + 1)
             ELSE SkipStep(Top.viewI + 1, Top.jointI)
     /\ (InLoop /\ Top.viewI # 0 /\ PAFGate(Top.choice) /\ EpipolarGate(Top.choice)) =>
          /\ getJoint(cluster', CurView, CurType) = Top.choice
          /\ Len(stack') = Len(stack) + 1
          /\ stack'[Len(stack)].pc = "inShift"]_vars

\* the candidate loop of an intermediate camera is over after a candidate
\* of it was explored
C13_Witness ==
  /\ LoopDone
  /\ Top.viewI # 0 /\ Top.viewI # viewNum - 1
  /\ Top.successfulShift

\* C14 as stated: a pass whose main camera has no candidate of the pass
\* root joint type adds no cluster to the preserved list
C14_EmptyPassPreservesNothing ==
  (Running /\ JointsOf(joints, viewOrder[1], jointOrder[1]) = <<>>) =>
    \A i \in Preserved : preservedClusters[i].mainView # viewOrder[1]

\* C15: for a frame without any candidate the search never enters a
\* candidate loop, so no lookup is made, and the resolver accepts no
\* cluster and makes no Pose
C15_EmptyFrame ==
  joints = noFrames => (~InLoop /\ accepted = {} /\ multiPersonPose = <<>>)

\* compute returned for a frame without any candidate, after the resolver
\* went through the clusters of the passes
C15_Witness ==
  /\ joints = noFrames
  /\ phase = "done"
  /\ clusterI = Len(PassViewOrders) * Len(PassJointOrders)

\* C16: compute eventually returns: every pass of the search ends and the
\* resolver ends
C16_Termination == <>(phase = "done")

\* compute returned after a search that preserved clusters with candidates
\* and a resolver that made a Pose
C16_Witness ==
  /\ phase = "done"
  /\ Len(preservedClusters) > Len(PassViewOrders) * Len(PassJointOrders)
  /\ multiPersonPose # <<>>

\* every stored part affinity and every stored epipolar score passes its gate
AllPass ==
  /\ \A v \in Views : \A k \in DOMAIN PAFs[v] : PAFs[v][k] >= EPS
  /\ \A k \in DOMAIN epipolars : epipolars[k] >= EPS

\* the origin of the ray of the only candidate of (view, type)
OriginOf(view, type) == JointsOf(joints, view, type)[1].ray.origin

\* the joint types that cameras 0 and 1 both have a candidate for
SeenByBoth ==
  {t \in CandTypes : JointsOf(joints, 0, t) # <<>> /\ JointsOf(joints, 1, t) # <<>>}

\* the points triangulated for two joint types are within the bone-length
\* limit of the pair
WithinLimit(t1, t2) ==
  ~FartherThan([num |-> OriginOf(0, t1) + OriginOf(1, t1), den |-> 2],
               [num |-> OriginOf(0, t2) + OriginOf(1, t2), den |-> 2],
               getMaxBoneLength(t1, t2))

C18_Occlusion ==
  (/\ phase = "done"
   /\ joints \in {LoadJoints(l) : l \in OnePersonLayouts \ {OnePerson}}
   /\ AllPass) =>
    /\ Len(multiPersonPose) = 1
    /\ multiPersonPose[1].hasJoint = SeenByBoth

\* the candidates of the frame of two people: those at the same place of
\* their lists are of one person
SamePerson(id1, id2) == PlaceOf(joints, id1) = PlaceOf(joints, id2)

\* all pairs of candidates of different people fail the gates, all pairs of
\* candidates of one person pass them
Separated ==
  /\ \A v \in Views : \A k \in DOMAIN PAFs[v] :
       IF SamePerson(k[1], k[2]) THEN PAFs[v][k] >= EPS ELSE PAFs[v][k] < EPS
  /\ \A k \in DOMAIN epipolars :
       IF SamePerson(k[1], k[2]) THEN epipolars[k] >= EPS ELSE epipolars[k] < EPS

\* C19: for the frame of two people, each seen by cameras 0 and 1 in the
\* root joint type and its child, whose cross-person pairs all fail the
\* affinity and the epipolar gate while same-person pairs pass, compute
\* returns exactly two Poses, every accepted cluster holds candidates of one
\* person only, and so does every Pose
C19_TwoPersons ==
  (/\ phase = "done"
   /\ joints \in {LoadJoints(l) : l \in TwoPersonLayouts}
   /\ Separated) =>
    /\ Len(multiPersonPose) = 2
    /\ \A i \in accepted :
         \A e1 \in DOMAIN preservedClusters[i].choices :
           \A e2 \in DOMAIN preservedClusters[i].choices :
             preservedClusters[i].choices[e1] = preservedClusters[i].choices[e2]
    /\ \A k1 \in DOMAIN VJPChoices : \A k2 \in DOMAIN VJPChoices :
         k1[3] = k2[3] => VJPChoices[k1] = VJPChoices[k2]

\* compute returned for such a frame with two Poses, each with the root
\* joint type and its child
C19_Witness ==
  /\ phase = "done"
  /\ joints \in {LoadJoints(l) : l \in TwoPersonLayouts}
  /\ Separated
  /\ Len(multiPersonPose) = 2
  /\ \A k \in 1 .. 2 : Cardinality(multiPersonPose[k].hasJoint) = 2

\* C20: a step never takes a Pose away, never turns a has-joint flag that
\* is true back to false, and never changes the position recorded for a
\* joint type whose flag is true
C20_FirstWriterWins ==
  [][\A k \in 1 .. Len(multiPersonPose) :
       /\ k <= Len(multiPersonPose')
       /\ \A t \in multiPersonPose[k].hasJoint :
            /\ t \in multiPersonPose'[k].hasJoint
            /\ multiPersonPose'[k].jointPos[t] = multiPersonPose[k].jointPos[t]]_vars

\* an accepted cluster was merged into a person that had the flag of a
\* joint type of the cluster already, with another position than the
\* cluster's
C20_Witness ==
  /\ Resolved
  /\ \E i \in accepted : \E k \in 1 .. Len(multiPersonPose) :
       LET cl == preservedClusters[i]
       IN /\ Triples(cl) # {}
          /\ \A tr \in Triples(cl) : VJCPerson(tr[1], tr[2], tr[3]) = k - 1
          /\ \E tr \in Triples(cl) :
               /\ multiPersonPose[k].writer[tr[2]] # i
               /\ WorldPos(cl, tr[2]) # multiPersonPose[k].jointPos[tr[2]]

\* C21: the part-affinity store of a View and the epipolar store of a
\* MultiView are symmetric: after any sequence of set calls, for every pair
\* of candidates (a, b) that was set in either argument order, get(a, b) and
\* get(b, a) both succeed and return the same value.  (A pair was set in
\* some order exactly when one of its two keys is stored: no call removes
\* an entry.)
C21_SymmetricStores ==
  \A a \in Candidates, b \in Candidates :
    /\ \A view \in Views :
         (Key(a.ID, b.ID) \in DOMAIN PAFs[view] \/ Key(b.ID, a.ID) \in DOMAIN PAFs[view]) =>
           /\ hasPAF(view, a, b)
           /\ hasPAF(view, b, a)
           /\ getPAF(view, a, b) = getPAF(view, b, a)
    /\ (Key(a.ID, b.ID) \in DOMAIN epipolars \/ Key(b.ID, a.ID) \in DOMAIN epipolars) =>
         /\ hasEpipolar(a, b)
         /\ hasEpipolar(b, a)
         /\ getEpipolar(a, b) = getEpipolar(b, a)

\* C22: a part-affinity or epipolar lookup for a pair of candidates that was
\* never set in either argument order ends in an error (std::out_of_range
\* from at()); it never returns a default or any other value.
C22_LookupOfUnsetPairThrows ==
  \A a \in Candidates, b \in Candidates :
    /\ \A view \in Views :
         (<<"PAF", view, a.ID, b.ID>> \notin setCalls /\ <<"PAF", view, b.ID, a.ID>> \notin setCalls)
           => ~hasPAF(view, a, b)
    /\ (<<"epipolar", a.ID, b.ID>> \notin setCalls /\ <<"epipolar", b.ID, a.ID>> \notin setCalls)
         => ~hasEpipolar(a, b)

\* some pairs were set in both stores, and a lookup of another pair throws
\* in each
C22_Witness ==
  /\ \E c \in setCalls : c[1] = "PAF" /\ c[2] = 0
  /\ \E c \in setCalls : c[1] = "epipolar"
  /\ \E a \in Candidates, b \in Candidates :
       /\ <<"PAF", 0, a.ID, b.ID>> \notin setCalls
       /\ <<"PAF", 0, b.ID, a.ID>> \notin setCalls
       /\ ~hasPAF(0, a, b)
  /\ \E a \in Candidates, b \in Candidates :
       /\ <<"epipolar", a.ID, b.ID>> \notin setCalls
       /\ <<"epipolar", b.ID, a.ID>> \notin setCalls
       /\ ~hasEpipolar(a, b)

\* C28: the bone-length table is symmetric: after any sequence of
\* setMaxBoneLength calls, getMaxBoneLength(a, b) = getMaxBoneLength(b, a)
\* for every joint-type pair, equal to the value most recently set for the
\* unordered pair (each step that stores a length for (a, b) makes both
\* lookups return that length); for a pair never set, the getter returns
\* the largest float.
C28_SymmetricBoneLengths ==
  /\ [](\A a \in Types, b \in Types :
          /\ getMaxBoneLength(a, b) = getMaxBoneLength(b, a)
          /\ (<<"bone", a, b>> \notin setCalls /\ <<"bone", b, a>> \notin setCalls)
               => getMaxBoneLength(a, b) = FLT_MAX)
  /\ [][\A a \in Types, b \in Types :
          (/\ Key(a, b) \in DOMAIN maxBoneLengths'
           /\ Key(a, b) \in DOMAIN maxBoneLengths
                => maxBoneLengths'[Key(a, b)] # maxBoneLengths[Key(a, b)])
            => /\ getMaxBoneLength(a, b)' = maxBoneLengths'[Key(a, b)]
               /\ getMaxBoneLength(b, a)' = maxBoneLengths'[Key(a, b)]]_vars

\* C23: after computeEpipolar(maxDistance), an epipolar score is stored for
\* every pair of candidates of the same joint type taken from two distinct
\* cameras, equal to 1 - distance/maxDistance of their rays, so every
\* epipolar lookup the search performs during compute (in either argument
\* order) succeeds.  The store is not written after computeEpipolar: the
\* first part is stated of the state compute is called in.
C23_EpipolarComplete ==
  /\ (phase = "search" /\ viewOrder = <<>>) =>
       \A va \in CandViews, type \in CandTypes : \A vb \in CandViews \ {va} :
         \A i \in 1 .. Len(JointsOf(joints, va, type)), j \in 1 .. Len(JointsOf(joints, vb, type)) :
           LET a == JointsOf(joints, va, type)[i]
               b == JointsOf(joints, vb, type)[j]
           IN /\ hasEpipolar(a, b)
              /\ getEpipolar(a, b) =
                   ScoreOne - (computeRayDistance(a.ray, b.ray) * ScoreOne) \div MAX_EPIPOLAR_DISTANCE
  /\ InLoop =>
       \A prevView \in PrevViews :
         hasEpipolar(JointOf(prevView, CurType, getJoint(cluster, prevView, CurType)),
                     JointOf(CurView, CurType, Top.choice))

\* the search looks up the score of a candidate with the candidate of an
\* earlier camera of the order, in the argument order that is not the
\* stored one
C23_Witness ==
  /\ InLoop
  /\ \E prevView \in PrevViews :
       LET a == JointOf(prevView, CurType, getJoint(cluster, prevView, CurType))
           b == JointOf(CurView, CurType, Top.choice)
       IN /\ Key(a.ID, b.ID) \notin DOMAIN epipolars
          /\ getEpipolar(a, b) \in 1 .. ScoreOne - 1

\* the cluster computeWorldPos is called with in the step the state takes:
\* with the candidate set (line 220) in the candidate loop, the working
\* cluster in the skip strategy
ClusterAtCall == IF InLoop THEN Shifted(Top.choice) ELSE cluster

\* C24: in every state reachable during compute, multiRayIntersect is
\* invoked only with 2 or more rays: every step that writes the position of
\* a joint type is a step in which computeWorldPos collected 2 or more rays
\* for it, so a joint type with fewer than 2 assigned cameras is never
\* triangulated.
C24_TriangulationArity ==
  [][\A type \in DOMAIN cluster'.worldPos :
       (type \in DOMAIN cluster.worldPos => cluster'.worldPos[type] # cluster.worldPos[type])
         => Len(CollectRays(ClusterAtCall, viewOrder, type, 0)) >= 2]_vars

\* one joint type was triangulated; the skip strategy at the last camera
\* found the next joint type assigned at the main camera only, did not
\* triangulate it and took the assignment back (lines 270-274)
C24_Witness ==
  /\ Running /\ Len(stack) >= 2
  /\ Caller.pc = "inSkip" /\ Caller.viewI = viewNum - 1
  /\ Caller.view0Choice # NO_CHOICE
  /\ LET type == jointOrder[Caller.jointI + 1]
     IN /\ type \notin DOMAIN cluster.worldPos
        /\ getJoint(cluster, viewOrder[1], type) = NO_CHOICE
        /\ Top.entryChoices = cluster.choices
  /\ cluster.worldPos # noFrames

\* the line of the ray passes through the point X
Through(ray, X) == Cross(VecSub(X, ray.origin), ray.direction) = ZeroVec

\* the rays are not all parallel
NotAllParallel(rs) ==
  \E i \in 1 .. Len(rs), j \in 1 .. Len(rs) : Cross(rs[i].direction, rs[j].direction) # ZeroVec

\* C29: triangulation idempotence: for every set of N >= 2 rays, not all
\* parallel, whose lines all pass through a point X, and for every choice
\* of positive weights, multiRayIntersect (either overload) returns X.
C29_Idempotence ==
  intersection # NoPoint =>
    \A X \in Points :
      (/\ Len(testRays) >= 2
       /\ \A i \in 1 .. Len(testRays) : Through(testRays[i], X)
       /\ NotAllParallel(testRays))
        => /\ intersection.den # 0
           /\ intersection.num = VecScale(X, intersection.den)

\* the weighted overload returned for three rays through (1, 2, 3), no two
\* of them parallel, none starting at the point, with unequal weights
C29_Witness ==
  /\ intersection # NoPoint /\ intersection.overload = "confs"
  /\ Len(testRays) = 3
  /\ \A i \in 1 .. 3 : Through(testRays[i], <<1, 2, 3>>) /\ testRays[i].origin # <<1, 2, 3>>
  /\ \A i \in 1 .. 3, j \in 1 .. 3 :
       i # j => Cross(testRays[i].direction, testRays[j].direction) # ZeroVec
  /\ testConfs[1] # testConfs[2]

\* C30: weighted triangulation of two skew rays returns the point of the
\* common perpendicular that divides it in the ratio of the weights: for
\* ray 1 (origin (0,0,0), direction (0,1,0), weight w1) and ray 2 (origin
\* (2,0,0), direction (0,0,1), weight w2) the result is
\* (2 * w2 / (w1 + w2), 0, 0), which is (1.6, 0, 0) for w1 = 0.5, w2 = 2.
C30_SkewRays ==
  (testRays = MainRays /\ intersection # NoPoint /\ intersection.overload = "confs") =>
    /\ intersection.den # 0
    /\ intersection.num[1] * (testConfs[1] + testConfs[2]) = 2 * testConfs[2] * intersection.den
    /\ intersection.num[2] = 0
    /\ intersection.num[3] = 0
    /\ testConfs = <<1, 4>> => 10 * intersection.num[1] = 16 * intersection.den

\* the call of the test of Main.cxx has returned
C30_Witness ==
  /\ testRays = MainRays /\ testConfs = <<1, 4>>
  /\ intersection # NoPoint /\ intersection.overload = "confs"

\* the cameras whose candidate of the joint type the cluster holds
ChosenViews(cl, type) == {v \in Views : getJoint(cl, v, type) # NO_CHOICE}

\* C25: the triangulation the search performs for a joint type weights the
\* ray of each assigned candidate by the square of that candidate's
\* confidence: the position stored in the cluster is the solution of
\* (sum N_i) x = sum (N_i * origin_i) with N_i scaled by confidence^2.  On
\* the rays of the model (origins on one line, directions across it) the
\* solution is the mean of the origins weighted by confidence^2.
C25_ConfidenceWeighted ==
  \A type \in DOMAIN cluster.worldPos :
    LET views == ChosenViews(cluster, type)
        cand(v) == JointOf(v, type, getJoint(cluster, v, type))
        weights == SumFn([v \in views |-> cand(v).conf * cand(v).conf])
        moments == SumFn([v \in views |-> cand(v).conf * cand(v).conf * cand(v).ray.origin])
    IN cluster.worldPos[type].num * weights = moments * cluster.worldPos[type].den

\* C27: no cross-frame state: the result of compute on a frame is the same
\* whether or not compute was called before on other frames, and after a
\* call no member of the QuickPose object other than scratch buffers that
\* the next call fully overwrites before reading differs from its value
\* before the call.  The call of the model is the first of a QuickPose:
\* before it count is 0 and the bone-length table is the calibrated one;
\* viewOrder, jointOrder, historyScores and the preserved list are
\* overwritten by the next call before it reads them.
C27_NoCrossFrameState ==
  /\ [](phase = "done" => count = 0)
  /\ [][maxBoneLengths' = maxBoneLengths]_vars

\* what the claim compares of a preserved cluster: the score, and the
\* candidates and the position of the main-assigned joint types
Projected(cl) ==
  [score |-> cl.score,
   choices |-> [e \in {x \in DOMAIN cl.choices : x[2] \in MainTypes(cl)} |-> cl.choices[e]],
   worldPos |-> [type \in MainTypes(cl) \cap DOMAIN cl.worldPos |-> cl.worldPos[type]]]

\* the places of the preserved list after which the next cluster is of
\* another pass: a pass preserves at least one cluster, all with its main
\* camera, and consecutive passes have different main cameras
PassEnds ==
  {i \in 1 .. Len(preservedClusters) :
     i = Len(preservedClusters) \/ preservedClusters[i].mainView # preservedClusters[i + 1].mainView}

\* the clusters the k-th pass preserved
PassClusters(k) ==
  LET end == CHOOSE i \in PassEnds : Cardinality({j \in PassEnds : j < i}) = k - 1
      start == IF k = 1 THEN 1
               ELSE 1 + CHOOSE i \in PassEnds : Cardinality({j \in PassEnds : j < i}) = k - 2
  IN [i \in 1 .. end - start + 1 |-> Projected(preservedClusters[start + i - 1])]

RepeatDone == phase = "search" /\ stack = <<>> /\ viewOrderI > Len(RepeatViewOrders)

Normal == Cross(testRays[1].direction, testRays[2].direction)

\* C31: for every pair of non-parallel rays, perpendicular pairs included,
\* computeRayDistance returns the skew-line distance
\* |(originA - originB) . normalize(dirA x dirB)|, and it returns 2.0 for
\* origin (0,0,0) direction (0,1,0) and origin (2,0,0) direction (0,0,1).
C31_SkewLineDistance ==
  distance # NoDistance =>
    LET diff == VecSub(testRays[1].origin, testRays[2].origin)
    IN /\ Normal # ZeroVec =>
            /\ distance.den # 0
            /\ distance.num * Dot(Normal, Normal) = Dot(diff, Normal) * Dot(diff, Normal) * distance.den
       /\ testRays = MainRays => distance.den # 0 /\ distance.num = 2 * 2 * distance.den

\* C32: for two parallel rays computeRayDistance takes the fallback branch
\* |cross(originA - originB, dirA)| and returns a finite distance, without
\* normalising a zero vector.
C32_ParallelFallback ==
  (distance # NoDistance /\ Normal = ZeroVec) =>
    LET c == Cross(VecSub(testRays[1].origin, testRays[2].origin), testRays[1].direction)
    IN /\ distance.branch = "cross"
       /\ distance.den # 0
       /\ distance.num * DirUnit * DirUnit = Dot(c, c) * distance.den

(* ------------------- the main camera comes first: C33 ----------------- *)

\* the call of compute below the newest one is inside the recursive call
\* of a candidate set at the last camera (lines 220-244)
SetAtLastView ==
  Running /\ Len(stack) >= 2 /\ Caller.pc = "inShift" /\ Caller.viewI = viewNum - 1

\* C33: whenever the search is at a camera other than the main camera for a
\* joint type, the main camera has a candidate assigned for that joint type;
\* and whenever a candidate was set at the last camera, the joint type has
\* at least 2 assigned cameras (the main camera's candidate as line 227 read
\* it, and the last camera's) and the position of the joint type is the
\* fresh triangulation of the rays assigned at line 229.
C33_MainViewAssignedFirst ==
  /\ (Running /\ Top.jointI < Len(jointOrder) /\ Top.viewI # 0) =>
       getJoint(cluster, viewOrder[1], CurType) # NO_CHOICE
  /\ SetAtLastView =>
       LET type == jointOrder[Caller.jointI + 1]
           set == setJoint(cluster, viewOrder[1], type, Caller.view0Choice)
           rays == CollectRays(set, viewOrder, type, 0)
       IN /\ Caller.view0Choice # NO_CHOICE
          /\ getJoint(cluster, viewOrder[viewNum], type) = Caller.choice
          /\ Len(rays) >= 2
          /\ type \in DOMAIN cluster.worldPos
          /\ cluster.worldPos[type] = multiRayIntersect(rays)

\* a candidate of a joint type other than the root, not the first of its
\* list, was set at the last camera and the search is at the next joint type
C33_Witness ==
  /\ SetAtLastView
  /\ Caller.jointI # 0
  /\ Caller.choice > 0
  /\ Top.pc = "loop" /\ Top.choice = 0

(* --------------------- the undo at the last camera: C34 --------------- *)

\* the call on the stack in which the search first reached, at the main
\* camera, the joint type of the call at position i
ReachedAt(i) ==
  CHOOSE k \in 1 .. i : stack[k].viewI = 0 /\ stack[k].jointI = stack[i].jointI

\* the call at position i is at the last camera, inside the recursive call
\* of line 244 or 289, and has undone the main camera's assignment of its
\* joint type (lines 238, 276, 283)
Undone(i) ==
  /\ stack[i].viewI = viewNum - 1
  /\ stack[i].pc \in {"inShift", "inSkip"}
  /\ stack[i].view0Choice # NO_CHOICE
  /\ getJoint(cluster, viewOrder[1], jointOrder[stack[i].jointI + 1]) = NO_CHOICE

\* C34: when the main-camera assignment of a joint type is undone at the
\* last camera, the cluster score becomes exactly the score the cluster had
\* when the search first reached this joint type on the current path (0 for
\* the pass root); the score-history entry read there is the one written on
\* the current path; and the search continues with the next joint type.
C34_UndoRestoresScore ==
  Running =>
    /\ \A k \in 1 .. Len(stack) :
         (stack[k].viewI = 0 /\ stack[k].jointI # 0) =>
           historyScores[stack[k].jointI - 1] = stack[k].entryScore
    /\ \A i \in 1 .. Len(stack) - 1 :
         Undone(i) =>
           /\ stack[i + 1].entryScore = stack[ReachedAt(i)].entryScore
           /\ stack[i].jointI = 0 => stack[i + 1].entryScore = 0
           /\ stack[i + 1].viewI = 0 /\ stack[i + 1].jointI = stack[i].jointI + 1

\* a candidate set at the last camera made the bone too long, the main
\* camera's assignment was undone, and the score before the joint type was
\* not 0
C34_Witness ==
  /\ Running /\ Len(stack) >= 2
  /\ Undone(Len(stack) - 1)
  /\ Caller.pc = "inShift"
  /\ Top.entryScore # 0
  /\ Top.entryScore # Caller.originalScore

(* -------------- what an undone joint type leaves behind: C35 ---------- *)

\* C35 as stated: in every cluster the search copies into the preserved
\* list, a joint type that has no main-camera assignment has no assignment
\* in any other camera either
C35_UndoneTypeHasNoCandidate ==
  JustPreserved => AssignedTypes(LastPreserved) = MainTypes(LastPreserved)

\* C35 amended: in every cluster the search copies into the preserved list,
\* a joint type that has no main-camera assignment but an assignment in
\* another camera is not the root, and the positions the cluster stores for
\* it and for its parent are farther apart than the maximum bone length:
\* the undo of lines 238 and 283 cleared the main camera's candidate only
C35_UndoLeavesOtherViews ==
  JustPreserved =>
    \A type \in AssignedTypes(LastPreserved) \ MainTypes(LastPreserved) :
      /\ type # rootJointType
      /\ FartherThan(WorldPos(LastPreserved, Parent(type)), WorldPos(LastPreserved, type),
                     getMaxBoneLength(type, Parent(type)))

\* the cluster just copied has a joint type without a main-camera
\* assignment whose candidate of another camera is still assigned
C35_Witness ==
  /\ JustPreserved
  /\ \E type \in AssignedTypes(LastPreserved) \ MainTypes(LastPreserved) :
       \E view \in CandViews \ {LastPreserved.mainView} :
         getJoint(LastPreserved, view, type) # NO_CHOICE

(* ------------------ the capacity of the preserved list: C36 ----------- *)

\* C36: the number of clusters in the preserved list never exceeds its
\* capacity maxClusterNum: every write preservedClusters[clusterNum] of line
\* 165 is within the allocated array, for every number of candidates per
\* camera and joint type.
C36_WithinCapacity == count <= maxClusterNum

(* ------------------------ the person tables: C37 ---------------------- *)

\* C37: the resolver never creates more than maxPersonNum persons: every
\* person index used to read or write the (camera, joint type, person) =>
\* candidate table is smaller than maxPersonNum, for every list of
\* preserved clusters.
C37_PersonsWithinTable ==
  /\ Len(multiPersonPose) <= maxPersonNum
  /\ \A k \in DOMAIN VJPChoices : k[3] < maxPersonNum
  /\ \A k \in DOMAIN VJCPersons : VJCPersons[k] < maxPersonNum

(* ----------------------- the camera permutations: C38 ----------------- *)

\* C38: for every frame with at least 2 cameras, whatever their number,
\* every camera index the search uses (viewOrder[viewI] for viewI below the
\* number of cameras, in each camera permutation) is a valid index of the
\* frame's camera list, and every camera of the frame is the main camera of
\* exactly one permutation.
C38_ValidViews ==
  (phase = "search" /\ stack # <<>>) =>
    /\ ValidView(Top.viewI)
    /\ cluster.mainView \in 0 .. viewsSize - 1
    /\ \A view \in 0 .. viewsSize - 1 :
         Cardinality({i \in 1 .. Len(viewOrders) : viewOrders[i][1] = view}) = 1

(* ------------------------- the returned Poses: C39 -------------------- *)

\* C39: every Pose of compute has at least one joint present, has the pass
\* root joint type (8) present, and for every present joint type other than
\* the root its parent joint type (per the parent table) is present too.
C39_PoseClosedUnderParent ==
  \A p \in 1 .. Len(multiPersonPose) :
    /\ multiPersonPose[p].hasJoint # {}
    /\ rootJointType \in multiPersonPose[p].hasJoint
    /\ \A type \in multiPersonPose[p].hasJoint \ {rootJointType} :
         Parent(type) \in multiPersonPose[p].hasJoint

\* compute returned a Pose with the three joint types of the joint order
C39_Witness ==
  /\ phase = "done"
  /\ \E p \in 1 .. Len(multiPersonPose) : multiPersonPose[p].hasJoint = CandTypes

(* ------------------------ the resolver tables: C40 -------------------- *)

\* C40: after every processed cluster the two resolver tables are mutually
\* inverse: candidate c of (camera v, joint type t) is owned by person p if
\* and only if person p's recorded candidate for (v, t) is c; and a recorded
\* candidate is never replaced by a different one.
C40_TablesInverse ==
  /\ [](/\ \A k \in DOMAIN VJCPersons : VJPChoice(k[1], k[2], VJCPersons[k]) = k[3]
        /\ \A k \in DOMAIN VJPChoices : VJCPerson(k[1], k[2], VJPChoices[k]) = k[3])
  /\ [][\A k \in DOMAIN VJPChoices :
          k \in DOMAIN VJPChoices' /\ VJPChoices'[k] = VJPChoices[k]]_vars

\* the resolver ended having merged a cluster into a person whose candidates
\* were already recorded, and both tables hold at least three candidates
C40_Witness ==
  /\ phase = "done"
  /\ Cardinality(accepted) > Len(multiPersonPose)
  /\ Cardinality(DOMAIN VJPChoices) >= 3
  /\ Cardinality(DOMAIN VJCPersons) >= 3
====
